---- MODULE Spec2Model ----
(***************************************************************************)
(* Arbetsytan: the progressive sanitization pipeline of apps/api.          *)
(*                                                                         *)
(* A text is a sequence of one-character strings.  The regular             *)
(* expressions of text_processing.py are written as sequences of nodes     *)
(* and run by a backtracking matcher that tries alternatives in the        *)
(* priority order of Python's re module (greedy repetition first, the      *)
(* left alternative first), so that re.sub, re.search and re.finditer      *)
(* find the same spans as the source.                                      *)
(***************************************************************************)
EXTENDS Integers, Sequences, FiniteSets, TLC

(***************************************************************************)
(* Characters and the classes \d, \w, \s of Python's re (str patterns).    *)
(***************************************************************************)
Digit == {"0", "1", "2", "3", "4", "5", "6", "7", "8", "9"}

UpperCase == <<"A", "B", "C", "D", "E", "F", "G", "H", "I", "J", "K", "L", "M",
               "N", "O", "P", "Q", "R", "S", "T", "U", "V", "W", "X", "Y", "Z",
               "Å", "Ä", "Ö">>

LowerCase == <<"a", "b", "c", "d", "e", "f", "g", "h", "i", "j", "k", "l", "m",
               "n", "o", "p", "q", "r", "s", "t", "u", "v", "w", "x", "y", "z",
               "å", "ä", "ö">>

Letter == {UpperCase[i] : i \in DOMAIN UpperCase} \cup {LowerCase[i] : i \in DOMAIN LowerCase}

WordChar == Digit \cup Letter \cup {"_"}

Space == {" ", "\t", "\n", "\r", "\f"}

\* The two cases of a letter (re.IGNORECASE); any other character alone.
BothCases(c) ==
    {c} \cup {LowerCase[i] : i \in {j \in DOMAIN UpperCase : UpperCase[j] = c}}
        \cup {UpperCase[i] : i \in {j \in DOMAIN LowerCase : LowerCase[j] = c}}

(***************************************************************************)
(* Regular-expression nodes.                                               *)
(***************************************************************************)
In(S)            == [k |-> "in", s |-> S]                      \* [...]
WB               == [k |-> "wb"]                               \* \b
Run(S, lo, hi)   == [k |-> "run", s |-> S, neg |-> FALSE, lo |-> lo, hi |-> hi, open |-> FALSE]  \* [...]{lo,hi}
Many(S, lo)      == [k |-> "run", s |-> S, neg |-> FALSE, lo |-> lo, hi |-> lo, open |-> TRUE]   \* [...]{lo,}
ManyNot(S, lo)   == [k |-> "run", s |-> S, neg |-> TRUE, lo |-> lo, hi |-> lo, open |-> TRUE]    \* [^...]{lo,}
Rep(r, lo, hi)   == [k |-> "rep", r |-> r, lo |-> lo, hi |-> hi] \* (?:r){lo,hi}
Alt(a, b)        == [k |-> "alt", a |-> a, b |-> b]            \* (a|b)
NotAhead(r)      == [k |-> "notahead", r |-> r]                \* (?!r)

D    == In(Digit)                          \* \d
Sep  == In({"-", " "})                     \* [- ]
OptSep == Run({"-", " "}, 0, 1)            \* [- ]?
DN(lo, hi) == Run(Digit, lo, hi)           \* \d{lo,hi}
Century == Alt(<<In({"1"}), In({"9"})>>, <<In({"2"}), In({"0"})>>)  \* (19|20)

\* A literal string, case-sensitive and under re.IGNORECASE.
Str(cs)  == [i \in DOMAIN cs |-> In({cs[i]})]
StrI(cs) == [i \in DOMAIN cs |-> In(BothCases(cs[i]))]

\* Call by value: F applied to the value of v, which is computed once.
Bind(v, F(_)) == CHOOSE y \in {F(x) : x \in {v}} : TRUE

IsWord(s, i) == i >= 1 /\ i <= Len(s) /\ s[i] \in WordChar

\* The length of the longest run of characters of the class (S, or its
\* complement when neg) that starts at position i of s.
RunLen(S, neg, s, i) ==
    Bind({j \in i..Len(s) : (s[j] \in S) = neg},
         LAMBDA stops : IF stops = {} THEN Len(s) + 1 - i
                        ELSE (CHOOSE j \in stops : \A m \in stops : j <= m) - i)

\* Of the candidate ends (pairs <<count, end>>) of a greedy repetition, the
\* end reached with the highest count that lets the rest match; 0 if none.
GreedyEnd(cands) ==
    Bind({c \in cands : c[2] # 0},
         LAMBDA ok : IF ok = {} THEN 0
                     ELSE (CHOOSE c \in ok : \A m \in ok : m[1] <= c[1])[2])

\* MatchSeq(rs, s, i): the node sequence rs matched against s from position
\* i; the position after the first match in backtracking order, 0 if none.
\* A repeated class is greedy: the longest run is tried first, then shorter
\* ones down to the minimum.
RECURSIVE MatchSeq(_, _, _)
MatchNode(n, rest, s, i) ==
    CASE n.k = "in" ->
            IF i <= Len(s) /\ s[i] \in n.s THEN MatchSeq(rest, s, i + 1) ELSE 0
      [] n.k = "wb" ->
            IF IsWord(s, i - 1) # IsWord(s, i) THEN MatchSeq(rest, s, i) ELSE 0
      [] n.k = "run" ->
            Bind(RunLen(n.s, n.neg, s, i),
                 LAMBDA avail :
                    GreedyEnd({<<c, MatchSeq(rest, s, i + c)>> :
                                  c \in n.lo..(IF n.open \/ avail < n.hi THEN avail ELSE n.hi)}))
      [] n.k = "rep" ->
            IF n.hi = 0 THEN MatchSeq(rest, s, i)
            ELSE Bind(MatchSeq(n.r \o <<Rep(n.r, IF n.lo > 0 THEN n.lo - 1 ELSE 0, n.hi - 1)>>
                                   \o rest, s, i),
                      LAMBDA e : IF e # 0 THEN e
                                 ELSE IF n.lo = 0 THEN MatchSeq(rest, s, i) ELSE 0)
      [] n.k = "alt" ->
            Bind(MatchSeq(n.a \o rest, s, i),
                 LAMBDA e : IF e # 0 THEN e ELSE MatchSeq(n.b \o rest, s, i))
      [] n.k = "notahead" ->
            IF MatchSeq(n.r, s, i) = 0 THEN MatchSeq(rest, s, i) ELSE 0

MatchSeq(rs, s, i) ==
    Bind(<<rs, i>>,
         LAMBDA a : IF a[1] = <<>> THEN a[2] ELSE MatchNode(Head(a[1]), Tail(a[1]), s, a[2]))

\* The matches of p in s, as pairs <<start, position after the end>>.
Matches(p, s) == {m \in {<<i, MatchSeq(p, s, i)>> : i \in 1..Len(s)} : m[2] # 0}

\* re.search: does the pattern match anywhere in s.
Search(p, s) == Matches(p, s) # {}

\* Of the matches ms, the leftmost that starts at or after position i, as a
\* one-element sequence; the empty sequence if there is none.
NextMatch(ms, i) ==
    Bind({m \in ms : m[1] >= i},
         LAMBDA later : IF later = {} THEN <<>>
                        ELSE <<CHOOSE m \in later : \A q \in later : m[1] <= q[1]>>)

\* re.sub(p, repl, s) with a replacement function of the matched text: the
\* leftmost match at or after position i is replaced and the scan goes on
\* behind it, so the matches replaced are the non-overlapping ones re.sub
\* finds.  ms is Matches(p, s).
RECURSIVE SubFrom(_, _, _, _)
SubFrom(ms, repl(_), s, i) ==
    Bind(NextMatch(ms, i),
         LAMBDA nm : IF nm = <<>> THEN SubSeq(s, i, Len(s))
                     ELSE SubSeq(s, i, nm[1][1] - 1)
                              \o repl(SubSeq(s, nm[1][1], nm[1][2] - 1))
                              \o SubFrom(ms, repl, s, nm[1][2]))

SubFn(p, repl(_), text) ==
    Bind(text, LAMBDA s : Bind(Matches(p, s), LAMBDA ms : SubFrom(ms, repl, s, 1)))

\* re.sub(p, tok, s) with a constant replacement.
Sub(p, tok, text) == LET repl(m) == tok IN SubFn(p, repl, text)

\* re.finditer(p, s): the matched texts, leftmost and non-overlapping.
RECURSIVE FindFrom(_, _, _)
FindFrom(ms, s, i) ==
    Bind(NextMatch(ms, i),
         LAMBDA nm : IF nm = <<>> THEN <<>>
                     ELSE <<SubSeq(s, nm[1][1], nm[1][2] - 1)>> \o FindFrom(ms, s, nm[1][2]))

FindIter(p, text) ==
    Bind(text, LAMBDA s : Bind(Matches(p, s), LAMBDA ms : FindFrom(ms, s, 1)))

(***************************************************************************)
(* text_processing.normalize_text                                          *)
(***************************************************************************)
\* str.split('\n'): the lines of s, cut at its newlines.  The cuts are the
\* positions of the newlines and the two ends; the k-th line lies between
\* the k-th and the (k+1)-th cut.
CutAt(cuts, k) == CHOOSE c \in cuts : Cardinality({d \in cuts : d < c}) = k - 1

SplitLines(text) ==
    Bind(text, LAMBDA s :
        Bind({0, Len(s) + 1} \cup {i \in 1..Len(s) : s[i] = "\n"}, LAMBDA cuts :
            [k \in 1..(Cardinality(cuts) - 1) |->
                SubSeq(s, CutAt(cuts, k) + 1, CutAt(cuts, k + 1) - 1)]))

\* '\n'.join(lines)
RECURSIVE JoinFrom(_, _)
JoinFrom(ls, k) ==
    IF k > Len(ls) THEN <<>>
    ELSE IF k = Len(ls) THEN ls[k]
    ELSE ls[k] \o <<"\n">> \o JoinFrom(ls, k + 1)

JoinLines(lines) == Bind(lines, LAMBDA ls : JoinFrom(ls, 1))

\* str.rstrip() and str.lstrip(): drop trailing / leading whitespace.
RStrip(text) ==
    Bind(text, LAMBDA s :
        Bind({i \in 1..Len(s) : s[i] \notin Space}, LAMBDA keep :
            IF keep = {} THEN <<>>
            ELSE SubSeq(s, 1, CHOOSE i \in keep : \A j \in keep : j <= i)))

normalize_text(text) ==
    LET LStrip(t) ==
            Bind(t, LAMBDA s :
                Bind({i \in 1..Len(s) : s[i] \notin Space}, LAMBDA keep :
                    IF keep = {} THEN <<>>
                    ELSE SubSeq(s, CHOOSE i \in keep : \A j \in keep : i <= j, Len(s))))
    IN
    \* The steps of normalize_text, in the order of the source.
    LET UnifyLineBreaks(t) ==
            Sub(Str(<<"\r">>), <<"\n">>, Sub(Str(<<"\r", "\n">>), <<"\n">>, t))
        CollapseBlankLines(t) == Sub(<<Many({"\n"}, 3)>>, <<"\n", "\n">>, t)
        RStripLines(t) ==
            Bind(SplitLines(t), LAMBDA ls : JoinLines([i \in DOMAIN ls |-> RStrip(ls[i])]))
    IN
    LStrip(RStrip(RStripLines(CollapseBlankLines(UnifyLineBreaks(text)))))

(***************************************************************************)
(* Mask tokens                                                             *)
(***************************************************************************)
TokEMAIL    == <<"[", "E", "M", "A", "I", "L", "]">>
TokPHONE    == <<"[", "P", "H", "O", "N", "E", "]">>
TokREDACTED == <<"[", "R", "E", "D", "A", "C", "T", "E", "D", "]">>
TokID       == <<"[", "I", "D", "]">>
TokNUM      == <<"[", "N", "U", "M", "]">>
TokLINK     == <<"[", "L", "I", "N", "K", "]">>
TokNAME     == <<"[", "N", "A", "M", "E", "]">>

\* re.sub of each pattern of a list in turn, all with the same replacement.
RECURSIVE SubEachFrom(_, _, _, _)
SubEachFrom(ps, k, tok, s) ==
    IF k > Len(ps) THEN s ELSE SubEachFrom(ps, k + 1, tok, Sub(ps[k], tok, s))

SubEach(ps, tok, s) == SubEachFrom(ps, 1, tok, s)

(***************************************************************************)
(* text_processing.mask_text_normal                                        *)
(***************************************************************************)
EmailCharSet == WordChar \cup {".", "-"}                      \* [\w\.-]

\* \b[\w\.-]+@[\w\.-]+\.\w+\b
mask_email_pattern ==
    <<WB, Many(EmailCharSet, 1), In({"@"}), Many(EmailCharSet, 1),
      In({"."}), Many(WordChar, 1), WB>>

\* The first three phone shapes, shared in text by the masker and the gate.
PhoneCountryCode ==                     \* \+46\s*\d{1,2}[- ]?\d{2,3}[- ]?\d{2,3}[- ]?\d{2,4}
    <<In({"+"}), In({"4"}), In({"6"}), Many(Space, 0), DN(1, 2), OptSep,
      DN(2, 3), OptSep, DN(2, 3), OptSep, DN(2, 4)>>

PhoneAreaCode ==                        \* \b0\d{1,2}[- ]\d{2,3}[- ]?\d{2,3}[- ]?\d{2,4}\b
    <<WB, In({"0"}), DN(1, 2), Sep, DN(2, 3), OptSep, DN(2, 3), OptSep, DN(2, 4), WB>>

PhoneMobile ==                          \* \b07\d[- ]\d{2,3}[- ]?\d{2,3}[- ]?\d{2,4}\b
    <<WB, In({"0"}), In({"7"}), D, Sep, DN(2, 3), OptSep, DN(2, 3), OptSep, DN(2, 4), WB>>

mask_phone_patterns ==
    <<PhoneCountryCode,
      PhoneAreaCode,
      PhoneMobile,
      <<In({"-"}), DN(4, 4), WB>>,                             \* -\d{4}\b
      <<WB, DN(2, 3), Sep, DN(2, 3), Sep, DN(2, 4), WB>> >>    \* \b\d{2,3}[- ]\d{2,3}[- ]\d{2,4}\b

mask_text_normal(text) ==
    LET \* \b(19|20)\d{6}[- ]\d{4}\b|\b(19|20)\d{10}\b
        mask_personnummer_pattern ==
            <<Alt(<<WB, Century, DN(6, 6), Sep, DN(4, 4), WB>>,
                  <<WB, Century, DN(10, 10), WB>>)>>
        t1 == Sub(mask_email_pattern, TokEMAIL, text)
        t2 == Sub(mask_personnummer_pattern, TokREDACTED, t1)
        t3 == SubEach(mask_phone_patterns, TokPHONE, t2)
        long_number_pattern == <<WB, Many(Digit, 11), WB>>         \* \b\d{11,}\b
    IN Sub(long_number_pattern, TokREDACTED, t3)

(***************************************************************************)
(* text_processing.mask_text_strict                                        *)
(***************************************************************************)
\* Dok\.Id\s+\d+   ID:\s*\d+   Id:\s*\d+   \bID\s+\d+   (all re.IGNORECASE)
id_label_patterns ==
    <<StrI(<<"D", "o", "k", ".", "I", "d">>) \o <<Many(Space, 1), Many(Digit, 1)>>,
      StrI(<<"I", "D", ":">>) \o <<Many(Space, 0), Many(Digit, 1)>>,
      StrI(<<"I", "d", ":">>) \o <<Many(Space, 0), Many(Digit, 1)>>,
      <<WB>> \o StrI(<<"I", "D">>) \o <<Many(Space, 1), Many(Digit, 1)>> >>

\* len(re.sub(r'\D', '', matched))
DigitCount(m) == Cardinality({i \in DOMAIN m : m[i] \in Digit})

\* A cluster rule that starts at six digits.
mask_digit_cluster_from_six(match) ==
    IF DigitCount(match) >= 6 THEN TokNUM ELSE match

mask_digit_cluster(match) ==
    Bind(match, LAMBDA matched :
        \* any(token in matched for token in [...])
        IF \E tok \in {TokPHONE, TokEMAIL, TokREDACTED, TokID, TokNUM} :
              \E i \in 1..(Len(matched) - Len(tok) + 1) :
                  SubSeq(matched, i, i + Len(tok) - 1) = tok
        THEN matched
        ELSE IF DigitCount(matched) >= 5 THEN TokNUM ELSE matched)

\* \b(?!(?:19|20)\d{2}[- ]\d{2}[- ]\d{2})
\*   (?![\[PHONE\]\[EMAIL\]\[REDACTED\]\[ID\]\[NUM\]])\d{1,4}(?:[- ]\d{1,4}){1,4}\b
digit_cluster_pattern ==
    <<WB,
      NotAhead(<<Century, DN(2, 2), Sep, DN(2, 2), Sep, DN(2, 2)>>),
      NotAhead(<<In({"[", "]", "P", "H", "O", "N", "E", "M", "A", "I", "L",
                     "R", "D", "C", "T", "U"})>>),
      DN(1, 4), Rep(<<Sep, DN(1, 4)>>, 1, 4), WB>>

\* \b\d{5,}\b
standalone_long_pattern == <<WB, Many(Digit, 5), WB>>

\* A strict level that runs its own substitutions on the text as it came,
\* without the normal level first.
mask_text_strict_without_normal(text) ==
    Sub(standalone_long_pattern, TokNUM,
        SubFn(digit_cluster_pattern, mask_digit_cluster,
              SubEach(id_label_patterns, TokID, text)))

mask_text_strict(text) ==
    LET t1 == mask_text_normal(text)
        t2 == SubEach(id_label_patterns, TokID, t1)
        t3 == SubFn(digit_cluster_pattern, mask_digit_cluster, t2)
    IN Sub(standalone_long_pattern, TokNUM, t3)

(***************************************************************************)
(* text_processing.mask_text_paranoid                                      *)
(***************************************************************************)
\* https?://[^\s]+   (re.IGNORECASE)
url_pattern ==
    StrI(<<"h", "t", "t", "p">>) \o <<Run(BothCases("s"), 0, 1)>>
        \o Str(<<":", "/", "/">>) \o <<ManyNot(Space, 1)>>

\* The label words of name_label_patterns; each pattern is
\* ^<label>\s+(.+) under re.IGNORECASE and its replacement '<label> [NAME]'.
name_labels ==
    << <<"S", "ö", "k", "a", "n", "d", "e">>,
       <<"M", "o", "t", "p", "a", "r", "t">>,
       <<"O", "m", "b", "u", "d">>,
       <<"R", "Ä", "T", "T", "E", "N">>,
       <<"R", "å", "d", "m", "a", "n", "n", "e", "n">> >>

\* The loop over name_label_patterns for one line, from the i-th pattern:
\* the first pattern that re.match-es the line rewrites it (re.sub anchored
\* at the start of the line), then break.
RECURSIVE mask_name_line(_, _)
mask_name_line(line, i) ==
    LET \* '.' of a pattern without re.DOTALL: any character but the newline.
        name_label_pattern(label) ==
            StrI(label) \o <<Many(Space, 1), ManyNot({"\n"}, 1)>>
    IN
    IF i > Len(name_labels) THEN line
    ELSE Bind(MatchSeq(name_label_pattern(name_labels[i]), line, 1),
              LAMBDA e : IF e # 0
                         THEN name_labels[i] \o <<" ">> \o TokNAME \o SubSeq(line, e, Len(line))
                         ELSE mask_name_line(line, i + 1))

\* A paranoid level that masks links and leaves the digits.
mask_text_paranoid_keeps_digits(text) ==
    Sub(url_pattern, TokLINK, Sub(mask_email_pattern, TokLINK, text))

mask_text_paranoid(text) ==
    LET t1 == Sub(mask_email_pattern, TokLINK, text)
        t2 == Sub(url_pattern, TokLINK, t1)
        t3 == Sub(<<D>>, TokNUM, t2)
    IN Bind(SplitLines(t3),
            LAMBDA lines : JoinLines([i \in DOMAIN lines |-> mask_name_line(lines[i], 1)]))

(***************************************************************************)
(* text_processing.mask_text                                               *)
(***************************************************************************)
mask_text(text, level) ==
    IF level = "paranoid" THEN mask_text_paranoid(text)
    ELSE IF level = "strict" THEN mask_text_strict(text)
    ELSE mask_text_normal(text)

(***************************************************************************)
(* text_processing.pii_gate_check                                          *)
(***************************************************************************)
\* Step 1: each allowed token (re.IGNORECASE) becomes [TOKEN], in list order.
allowed_tokens ==
    <<StrI(TokPHONE), StrI(TokEMAIL),
      StrI(<<"[", "P", "E", "R", "S", "O", "N", "N", "U", "M", "M", "E", "R", "]">>), StrI(TokID),
      StrI(TokREDACTED), StrI(TokNUM), StrI(TokLINK), StrI(TokNAME)>>

\* A step 1 that deletes the tokens and so joins what stood around them.
gate_tokens_deleted(text) == SubEach(allowed_tokens, <<>>, text)

gate_sanitized(text) ==
    SubEach(allowed_tokens, <<"[", "T", "O", "K", "E", "N", "]">>, text)

\* Step 2: \b(19|20)\d{6}[- ]\d{4}\b  \b(19|20)\d{10}\b  \b\d{6}[- ]\d{4}\b  \b\d{10}\b
gate_personnummer_patterns ==
    << <<WB, Century, DN(6, 6), Sep, DN(4, 4), WB>>,
       <<WB, Century, DN(10, 10), WB>>,
       <<WB, DN(6, 6), Sep, DN(4, 4), WB>>,
       <<WB, DN(10, 10), WB>> >>

\* Step 3: \b(19|20)\d{2}(0[1-9]|1[0-2])(0[1-9]|[12]\d|3[01])\b
birthdate_pattern ==
    <<WB, Century, DN(2, 2),
      Alt(<<In({"0"}), In(Digit \ {"0"})>>, <<In({"1"}), In({"0", "1", "2"})>>),
      Alt(<<In({"0"}), In(Digit \ {"0"})>>,
          <<Alt(<<In({"1", "2"}), D>>, <<In({"3"}), In({"0", "1"})>>)>>),
      WB>>

\* \d{4}-\d{2}-\d{2}
hyphen_date_pattern == <<DN(4, 4), In({"-"}), DN(2, 2), In({"-"}), DN(2, 2)>>

\* A birthdate check that no YYYY-MM-DD nearby suppresses.
birthdate_detected_unsuppressed(sanitized) == Search(birthdate_pattern, sanitized)

\* The birthdate loop: some match of birthdate_pattern whose context (20
\* characters on either side) holds no \d{4}-\d{2}-\d{2}.
birthdate_detected(sanitized) ==
    \E m \in Matches(birthdate_pattern, sanitized) :
        LET context_start == IF m[1] - 20 > 1 THEN m[1] - 20 ELSE 1
            context_end   == IF m[2] - 1 + 20 < Len(sanitized) THEN m[2] - 1 + 20
                             ELSE Len(sanitized)
        IN ~Search(hyphen_date_pattern, SubSeq(sanitized, context_start, context_end))

\* Step 5
gate_phone_patterns == <<PhoneCountryCode, PhoneAreaCode, PhoneMobile>>

phone_detected(sanitized) ==
    \E j \in DOMAIN gate_phone_patterns :
        \E ms \in {FindIter(gate_phone_patterns[j], sanitized)} :
            \E n \in DOMAIN ms :
                \* not re.match(r'^(19|20)\d{2}-\d{2}-\d{2}$', matched_text)
                /\ MatchSeq(<<Century, DN(2, 2), In({"-"}), DN(2, 2), In({"-"}), DN(2, 2)>>,
                            ms[n], 1) # Len(ms[n]) + 1
                /\ DigitCount(ms[n]) >= 7

\* Step 6: the gate's own copy of the ID label patterns
gate_id_label_patterns ==
    <<StrI(<<"D", "o", "k", ".", "I", "d">>) \o <<Many(Space, 1), Many(Digit, 1)>>,
      StrI(<<"I", "D", ":">>) \o <<Many(Space, 0), Many(Digit, 1)>>,
      StrI(<<"I", "d", ":">>) \o <<Many(Space, 0), Many(Digit, 1)>>,
      <<WB>> \o StrI(<<"I", "D">>) \o <<Many(Space, 1), Many(Digit, 1)>> >>

\* The reason codes, in the order the steps append them.
gate_reasons(sanitized) ==
    LET \* Step 4: [\w\.-]+@[\w\.-]+\.\w+
        gate_email_pattern ==
            <<Many(EmailCharSet, 1), In({"@"}), Many(EmailCharSet, 1),
              In({"."}), Many(WordChar, 1)>>
        \* Step 7: \b\d{9,}\b
        gate_long_number_pattern == <<WB, Many(Digit, 9), WB>>
    IN
    (IF \E j \in DOMAIN gate_personnummer_patterns :
            Search(gate_personnummer_patterns[j], sanitized)
     THEN <<"personnummer_detected">> ELSE <<>>)
    \o (IF birthdate_detected(sanitized)
        THEN <<"birthdate_like_sequence_detected">> ELSE <<>>)
    \o (IF Search(gate_email_pattern, sanitized) THEN <<"email_detected">> ELSE <<>>)
    \o (IF phone_detected(sanitized) THEN <<"phone_detected">> ELSE <<>>)
    \o (IF \E j \in DOMAIN gate_id_label_patterns : Search(gate_id_label_patterns[j], sanitized)
        THEN <<"unmasked_id_detected">> ELSE <<>>)
    \o (IF Search(gate_long_number_pattern, sanitized)
        THEN <<"long_number_detected">> ELSE <<>>)

\* A gate whose verdict is safe whatever it found.
pii_gate_check_always_safe(text) ==
    [is_safe |-> TRUE, reasons |-> gate_reasons(gate_sanitized(text))]

\* (is_safe, reasons)
pii_gate_check(text) ==
    Bind(gate_sanitized(text), LAMBDA sanitized :
        Bind(gate_reasons(sanitized), LAMBDA rs :
            [is_safe |-> (Len(rs) = 0), reasons |-> rs]))

(***************************************************************************)
(* Inputs                                                                  *)
(***************************************************************************)
\* Texts are built from fragments that carry the shapes the masker and the
\* gate look for; a text has at most MaxFrags of them.
MaxFrags == 3

\* A raw text for normalize_text has at most MaxNormLen characters.
MaxNormLen == 7

\* create_scout_feed is called while the feed table has fewer than MaxFeeds rows.
MaxFeeds == 2

\* fetch_all_feeds runs while the item table has at most MaxItems rows.
MaxItems == 1

Fragments ==
    { <<"-", "@">>,
      <<"a", ".", "b">>,
      <<"0", ".", "0">>,
      <<"I", "D", ":", "0">>,
      <<"1", "9", "8", "0", "0", "1", "0", "1">>,
      <<" ">> }

MaskFragments ==
    Fragments \cup { <<"-", "1", "2", "3", "4">>,
                     <<"S", "ö", "k", "a", "n", "d", "e">> }

\* The concatenations of at most k fragments of F.
RECURSIVE Concats(_, _)
Concats(F, k) ==
    IF k = 0 THEN {<<>>}
    ELSE Concats(F, k - 1) \cup {t \o f : t \in Concats(F, k - 1), f \in F}

\* A text whose only number-like content is an unlabelled cluster of five
\* digits with a blank in it.
RefCluster == <<"R", "e", "f", " ", "2", "4", " ", "6", "9", "8">>

Inputs == Concats(Fragments, MaxFrags) \cup {RefCluster}

\* Texts with dates: a bare YYYYMMDD near and far from a YYYY-MM-DD of another
\* day, and YYYY-MM-DD dates with digits around them.
DateTexts ==
    { <<"1", "9", "8", "0", "0", "1", "0", "1", " ", "a", " ", "1", "9", "8", "0", "-", "0",
        "1", "-", "0", "2">>,
      <<"1", "9", "8", "0", "0", "1", "0", "1", " ", "a", " ", "a", " ", "a", " ", "a", " ",
        "a", " ", "1", "9", "8", "0", "-", "0", "1", "-", "0", "1">>,
      <<"1", "9", "8", "0", "0", "1", "0", "1", " ", "a", " ", "a", " ", "a", " ", "a", " ",
        "a", "1", "9", "8", "0", "-", "0", "1", "-", "0", "1">>,
      <<"1", "2", " ", "1", "9", "8", "0", "-", "0", "1", "-", "0", "1">>,
      <<"1", "9", "8", "0", "-", "0", "1", "-", "0", "1", " ", "1", "2">>,
      <<"1", "8", "8", "0", "-", "0", "1", "-", "0", "1", " ", "a", " ", "2", "0", "2", "5",
        "-", "1", "1", "-", "2", "0">> }

\* The feeds: sequences of items whose titles are non-empty and hold at most
\* k fragments in all; the other fields of an item are empty.
RECURSIVE Feeds(_)
Feeds(k) ==
    {<<>>} \cup UNION {{<<[title |-> t, published |-> <<>>, link |-> <<>>,
                             summary_text |-> <<>>]>> \o f :
                            t \in (Concats(Fragments, j) \ Concats(Fragments, j - 1)),
                            f \in Feeds(k - j)} : j \in 1..k}

(***************************************************************************)
(* State                                                                   *)
(***************************************************************************)
VARIABLES
    site,                \* the handler that runs: one of Sites
    pc,                  \* its position
    items,               \* create_project_from_feed: items_to_process still to come
    raw_text,            \* raw_text / processed_text / note.body / raw_content
    normalized_text,
    masked_text,
    is_safe,
    reasons,
    pii_gate_reasons,    \* None, or a dict from level name to reason list
    sanitize_level,
    usage_restrictions,
    attempts,            \* history: the levels mask_text was called with in this run
    session,             \* records db.add-ed and not yet committed
    documents,           \* committed Document rows
    notes,               \* committed ProjectNote rows
    created_count,
    response,            \* HTTP status returned to the caller, 0 while running
    fn,                  \* the pure function under call, for SpecMask and SpecNormalize
    arg_text,
    arg_level,
    result,              \* what the call returned, None before it returns
    result2,             \* what the function returned on its own result
    verdict,             \* pii_gate_check(result)
    error,               \* the exception the call raised, "none" if it returned
    step,
    files,               \* the disk: a function from the paths that exist to their content
    uuid_count,          \* the uuid.uuid4() calls made so far
    temp_path,           \* temp_path / temp_txt_path of the request, <<>> when it has none
    audio_path,          \* upload_recording: audio_path, <<>> when there is none
    files_to_delete,     \* delete_project: the list of phase 1
    project_exists,      \* the Project row is in the database
    runs,                \* concurrent requests: each one's text and its handler's locals
    scout_feeds,         \* the ScoutFeed rows, by id
    scout_items,         \* the committed ScoutItem rows
    scout_mode,          \* the mode fetch_all_feeds is called with
    scout_last,          \* the scout operation that ran last, with what it got and returned
    dns,                 \* what each hostname resolves to at present
    fetch_url,           \* validate_and_fetch: url
    current_url,
    redirects_followed,
    requests_sent,       \* the requests session.get has sent, with the address each reached
    fetch_pc,
    fetch_result,        \* "content", or the exception raised; "none" while running
    TESTMODE,            \* fortknox-local: the TESTMODE flag of the process
    policy_mode,         \* compile_report: request.policy.mode
    attempt,             \* compile_report: the loop variable
    llm_calls,           \* what each call of call_llama_server met, in order
    knox_pc,
    knox_response        \* HTTP status of compile_report's answer, 0 while running

pipeline_vars == <<site, pc, items, raw_text, normalized_text, masked_text, is_safe, reasons,
                   pii_gate_reasons, sanitize_level, usage_restrictions, attempts, session,
                   documents, notes, created_count, response>>

fn_vars == <<fn, arg_text, arg_level, result, result2, verdict, error, step>>

disk_vars == <<files, uuid_count, temp_path, audio_path, files_to_delete, project_exists>>

scout_vars == <<scout_feeds, scout_items, scout_mode, scout_last>>

fetch_vars == <<dns, fetch_url, current_url, redirects_followed, requests_sent, fetch_pc,
                fetch_result>>

knox_vars == <<TESTMODE, policy_mode, attempt, llm_calls, knox_pc, knox_response>>

vars == <<pipeline_vars, fn_vars, runs, disk_vars, scout_vars, fetch_vars, knox_vars>>

\* models.SanitizeLevel
NORMAL   == "normal"
STRICT   == "strict"
PARANOID == "paranoid"

\* Python's None and a value that is not None.
None == [is_none |-> TRUE]
Some(v) == [is_none |-> FALSE, v |-> v]

\* A dict assignment that is lost.
SetItemLost(d, k, v) == d

\* d[k] = v on a dict d
SetItem(d, k, v) == [x \in DOMAIN d \cup {k} |-> IF x = k THEN v ELSE d[x]]

EmptyDict == [x \in {} |-> <<>>]

\* `pii_gate_reasons if pii_gate_reasons else None`: None and {} are falsy.
OrNone(d) == IF d.is_none \/ DOMAIN d.v = {} THEN None ELSE d

\* A path is a sequence of names; a name made with uuid4 carries the number
\* of the call that made it.
Name(prefix, id, ext) == [prefix |-> prefix, id |-> id, ext |-> ext]

\* UPLOAD_DIR = Path("uploads"), a relative path
UPLOAD_DIR == <<Name("uploads", 0, "")>>

\* pathlib's a / b for a relative b (every path of the handlers is relative,
\* as UPLOAD_DIR is): the names of b follow those of a.
PathJoin(a, b) == a \o b

\* open(path, 'w').write(content), and what a file holds: the kind of file
\* it is and the text in it (for an audio file, the text spoken).
FileContent(kind, text) == [kind |-> kind, text |-> text]

WriteFile(disk, path, content) ==
    [q \in DOMAIN disk \cup {path} |-> IF q = path THEN content ELSE disk[q]]

\* os.remove(path)
RemoveFiles(disk, paths) == [q \in DOMAIN disk \ paths |-> disk[q]]

MoveFileLost(disk, src, dst) == RemoveFiles(disk, {src})

\* shutil.move(src, dst)
MoveFile(disk, src, dst) ==
    [q \in (DOMAIN disk \ {src}) \cup {dst} |-> IF q = dst THEN disk[src] ELSE disk[q]]

disk_empty ==
    /\ files = [q \in {} |-> FileContent("none", <<>>)] /\ uuid_count = 0 /\ temp_path = <<>> /\ audio_path = <<>>
    /\ files_to_delete = <<>>

\* No scout request has run: the tables are empty.
scout_idle ==
    /\ scout_feeds = <<>> /\ scout_items = <<>> /\ scout_mode = "fixture"
    /\ scout_last = [op |-> "none", feed_id |-> 0, mode |-> "none", served |-> <<>>,
                     results |-> <<>>, failed |-> {}]

\* validate_and_fetch is not called.
fetch_idle ==
    /\ dns = <<>> /\ fetch_url = <<>> /\ current_url = <<>> /\ redirects_followed = 0
    /\ requests_sent = {} /\ fetch_pc = "idle" /\ fetch_result = "none"

\* compile_report is not called.
knox_idle ==
    /\ TESTMODE = FALSE /\ policy_mode = "none" /\ attempt = 0 /\ llm_calls = <<>> /\ knox_pc = "idle"
    /\ knox_response = 0

fn_idle ==
    /\ fn = "none" /\ arg_text = <<>> /\ arg_level = "none" /\ result = None
    /\ result2 = None /\ verdict = None /\ error = "none" /\ step = "idle"

pipeline_idle ==
    /\ site = "none" /\ pc = "idle" /\ items = <<>> /\ raw_text = <<>>
    /\ normalized_text = <<>> /\ masked_text = None /\ is_safe = FALSE /\ reasons = <<>>
    /\ pii_gate_reasons = None /\ sanitize_level = NORMAL
    /\ usage_restrictions = [ai_allowed |-> TRUE, export_allowed |-> TRUE]
    /\ attempts = <<>> /\ session = <<>> /\ documents = <<>> /\ notes = <<>>
    /\ created_count = 0 /\ response = 0
    /\ disk_empty /\ project_exists = FALSE

\* One request: a handler and its input.  The feed import gets a feed of
\* items, the other handlers one text.
Init ==
    LET Sites == {"upload_document", "upload_recording", "create_note",
                  "create_project_from_feed"}
    IN
    /\ fn_idle
    /\ site \in Sites
    /\ pc = "start"
    /\ IF site = "create_project_from_feed"
       THEN items \in Feeds(MaxFrags) /\ raw_text = <<>>
       ELSE items = <<>> /\ raw_text \in Inputs
    /\ normalized_text = <<>>
    /\ masked_text = None
    /\ is_safe = FALSE
    /\ reasons = <<>>
    /\ pii_gate_reasons = None
    /\ sanitize_level = NORMAL
    /\ usage_restrictions = [ai_allowed |-> TRUE, export_allowed |-> TRUE]
    /\ attempts = <<>>
    /\ session = <<>>
    /\ documents = <<>>
    /\ notes = <<>>
    /\ created_count = 0
    /\ response = 0
    /\ disk_empty
    /\ project_exists = TRUE
    /\ runs = <<>>
    /\ scout_idle /\ fetch_idle /\ knox_idle

(***************************************************************************)
(* The progressive sanitization pipeline, inlined in four handlers of      *)
(* main.py.  One action per step of the escalation.                        *)
(***************************************************************************)
AllAllowed == [ai_allowed |-> TRUE, export_allowed |-> TRUE]
\* Restrictions that leave export open.
NoneAllowedExportOpen == [ai_allowed |-> FALSE, export_allowed |-> TRUE]

NoneAllowed == [ai_allowed |-> FALSE, export_allowed |-> FALSE]

\* normalize_text and the initialisation of the pipeline's locals.
EnterPipeline(raw) ==
    /\ normalized_text' = normalize_text(raw)
    /\ pii_gate_reasons' = Some(EmptyDict)
    /\ sanitize_level' = NORMAL
    /\ usage_restrictions' = AllAllowed
    /\ masked_text' = None
    /\ attempts' = <<>>
    /\ pc' = "try_normal"

\* What the handler has put on disk when it reaches the pipeline.
\* upload_document: the uploaded file at temp_path.  upload_recording: the
\* audio at audio_path and the processed transcript at temp_txt_path.
\* create_note: nothing.
SaveUpload(s) ==
    IF s = "upload_document"
    THEN \E tp \in {PathJoin(UPLOAD_DIR, <<Name("temp_", uuid_count + 1, "")>>)} :
            /\ uuid_count' = uuid_count + 1
            /\ temp_path' = tp
            /\ files' = WriteFile(files, tp, FileContent("document", raw_text))
            /\ UNCHANGED audio_path
    ELSE IF s = "upload_recording"
    THEN \E ap \in {PathJoin(UPLOAD_DIR, <<Name("", uuid_count + 1, ".audio")>>)} :
         \E tp \in {PathJoin(UPLOAD_DIR, <<Name("temp_transcript_", uuid_count + 2, ".txt")>>)} :
            /\ uuid_count' = uuid_count + 2
            /\ audio_path' = ap
            /\ temp_path' = tp
            /\ files' = WriteFile(WriteFile(files, ap, FileContent("audio", raw_text)),
                                  tp, FileContent("document", raw_text))
    ELSE UNCHANGED <<files, uuid_count, temp_path, audio_path>>

\* upload_document, upload_recording and create_note take one text.
Begin(s) ==
    /\ site = s
    /\ pc = "start"
    /\ SaveUpload(s)
    /\ EnterPipeline(raw_text)
    /\ UNCHANGED <<site, items, raw_text, is_safe, reasons, session, documents, notes,
                   created_count, response, fn_vars, runs,
                   scout_vars, fetch_vars, knox_vars, files_to_delete, project_exists>>

\* "Try normal masking"
TryNormal(s) ==
    /\ site = s
    /\ pc = "try_normal"
    /\ \E m \in {mask_text(normalized_text, "normal")} : \E g \in {pii_gate_check(m)} :
          /\ masked_text' = Some(m)
          /\ is_safe' = g.is_safe
          /\ reasons' = g.reasons
          /\ IF g.is_safe
             THEN /\ sanitize_level' = NORMAL
                  /\ pii_gate_reasons' = None
                  /\ pc' = "sanitized"
             ELSE /\ pii_gate_reasons' = Some(SetItem(pii_gate_reasons.v, "normal", g.reasons))
                  /\ pc' = "try_strict"
                  /\ UNCHANGED sanitize_level
    /\ attempts' = Append(attempts, "normal")
    /\ UNCHANGED <<site, items, raw_text, normalized_text, usage_restrictions, session,
                   documents, notes, created_count, response, fn_vars, runs,
                   scout_vars, fetch_vars, knox_vars, disk_vars>>

\* An escalation that leaves the strict level out.
TryStrictSkipped(s) ==
    /\ site = s
    /\ pc = "try_strict"
    /\ pc' = "use_paranoid"
    /\ UNCHANGED <<site, items, raw_text, normalized_text, masked_text, is_safe, reasons,
                   pii_gate_reasons, sanitize_level, usage_restrictions, attempts, session,
                   documents, notes, created_count, response, fn_vars, runs,
                   scout_vars, fetch_vars, knox_vars, disk_vars>>

\* "Try strict masking"; create_note leaves usage_restrictions as initialised.
TryStrict(s) ==
    /\ site = s
    /\ pc = "try_strict"
    /\ \E m \in {mask_text(normalized_text, "strict")} : \E g \in {pii_gate_check(m)} :
          /\ masked_text' = Some(m)
          /\ is_safe' = g.is_safe
          /\ reasons' = g.reasons
          /\ IF g.is_safe
             THEN /\ sanitize_level' = STRICT
                  /\ IF s = "create_note"
                     THEN UNCHANGED usage_restrictions
                     ELSE usage_restrictions' = AllAllowed
                  /\ pc' = "sanitized"
                  /\ UNCHANGED pii_gate_reasons
             ELSE /\ pii_gate_reasons' = Some(SetItem(pii_gate_reasons.v, "strict", g.reasons))
                  /\ pc' = "use_paranoid"
                  /\ UNCHANGED <<sanitize_level, usage_restrictions>>
    /\ attempts' = Append(attempts, "strict")
    /\ UNCHANGED <<site, items, raw_text, normalized_text, session, documents, notes,
                   created_count, response, fn_vars, runs,
                   scout_vars, fetch_vars, knox_vars, disk_vars>>

\* "Use paranoid masking (must always pass gate)": upload_document and
\* upload_recording check the gate and raise HTTP 500 when it rejects.
UseParanoidChecked(s) ==
    /\ site = s
    /\ pc = "use_paranoid"
    /\ \E m \in {mask_text(normalized_text, "paranoid")} : \E g \in {pii_gate_check(m)} :
          /\ masked_text' = Some(m)
          /\ is_safe' = g.is_safe
          /\ reasons' = g.reasons
          /\ IF ~g.is_safe
             THEN /\ files' = RemoveFiles(files, {temp_path, audio_path})
                  /\ response' = 500
                  /\ pc' = "fatal"
                  /\ UNCHANGED <<sanitize_level, usage_restrictions>>
             ELSE /\ sanitize_level' = PARANOID
                  /\ usage_restrictions' = NoneAllowed
                  /\ pc' = "sanitized"
                  /\ UNCHANGED <<response, files>>
    /\ attempts' = Append(attempts, "paranoid")
    /\ UNCHANGED <<site, items, raw_text, normalized_text, pii_gate_reasons, session,
                   documents, notes, created_count, fn_vars, runs,
                   scout_vars, fetch_vars, knox_vars, uuid_count, temp_path,
                   audio_path, files_to_delete, project_exists>>

\* A paranoid step that masks the output of the strict attempt.
create_note_use_paranoid_on_masked ==
    /\ site = "create_note"
    /\ pc = "use_paranoid"
    /\ masked_text' = Some(mask_text(masked_text.v, "paranoid"))
    /\ sanitize_level' = PARANOID
    /\ usage_restrictions' = NoneAllowed
    /\ pc' = "sanitized"
    /\ attempts' = Append(attempts, "paranoid")
    /\ UNCHANGED <<site, items, raw_text, normalized_text, is_safe, reasons, pii_gate_reasons,
                   session, documents, notes, created_count, response, fn_vars, runs,
                   scout_vars, fetch_vars, knox_vars, disk_vars>>

\* create_note: "Use paranoid masking", with no gate check.
create_note_use_paranoid ==
    /\ site = "create_note"
    /\ pc = "use_paranoid"
    /\ masked_text' = Some(mask_text(normalized_text, "paranoid"))
    /\ sanitize_level' = PARANOID
    /\ usage_restrictions' = NoneAllowed
    /\ pc' = "sanitized"
    /\ attempts' = Append(attempts, "paranoid")
    /\ UNCHANGED <<site, items, raw_text, normalized_text, is_safe, reasons, pii_gate_reasons,
                   session, documents, notes, created_count, response, fn_vars, runs,
                   scout_vars, fetch_vars, knox_vars, disk_vars>>

\* create_project_from_feed: the gate is checked; when it rejects, the
\* error is logged and the loop continues with the next item.
create_project_from_feed_use_paranoid ==
    /\ site = "create_project_from_feed"
    /\ pc = "use_paranoid"
    /\ \E m \in {mask_text(normalized_text, "paranoid")} : \E g \in {pii_gate_check(m)} :
          /\ masked_text' = Some(m)
          /\ is_safe' = g.is_safe
          /\ reasons' = g.reasons
          /\ IF ~g.is_safe
             THEN /\ pc' = "skipped"
                  /\ UNCHANGED <<sanitize_level, usage_restrictions>>
             ELSE /\ sanitize_level' = PARANOID
                  /\ usage_restrictions' = NoneAllowed
                  /\ pc' = "sanitized"
    /\ attempts' = Append(attempts, "paranoid")
    /\ UNCHANGED <<site, items, raw_text, normalized_text, pii_gate_reasons, session,
                   documents, notes, created_count, response, fn_vars, runs,
                   scout_vars, fetch_vars, knox_vars, disk_vars>>

\* The Document(...) both upload handlers and the feed import build.
NewDocument(permanent_path) ==
    [source |-> site,
     masked_text |-> masked_text.v,
     file_path |-> permanent_path,
     sanitize_level |-> sanitize_level,
     usage_restrictions |-> usage_restrictions,
     pii_gate_reasons |-> OrNone(pii_gate_reasons)]

\* "Move file to permanent location"; db.add(db_document); db.commit();
\* return 201
StoreDocument(s) ==
    /\ site = s
    /\ pc = "sanitized"
    /\ \E permanent_path \in {PathJoin(UPLOAD_DIR, <<Name("", uuid_count + 1, ".txt")>>)} :
          /\ files' = MoveFile(files, temp_path, permanent_path)
          /\ documents' = Append(documents, NewDocument(permanent_path))
    /\ uuid_count' = uuid_count + 1
    /\ response' = 201
    /\ pc' = "responded"
    /\ UNCHANGED <<site, items, raw_text, normalized_text, masked_text, is_safe, reasons,
                   pii_gate_reasons, sanitize_level, usage_restrictions, attempts, session,
                   notes, created_count, fn_vars, runs,
                   scout_vars, fetch_vars, knox_vars, temp_path, audio_path, files_to_delete,
                   project_exists>>

\* upload_document fails at a step other than the gate.  Type validation and
\* text extraction write temp_path, remove it and answer 400.  A shutil.move
\* or a db.commit that raises ends in "except Exception": temp_path is
\* removed if it exists, the transaction is lost, and the answer is 500.
upload_document_fails ==
    /\ site = "upload_document"
    /\ \E failing \in {"validate_file_type", "extract_text", "shutil.move", "db.commit"} :
          IF failing \in {"validate_file_type", "extract_text"}
          THEN /\ pc = "start"
               /\ temp_path' = PathJoin(UPLOAD_DIR, <<Name("temp_", uuid_count + 1, "")>>)
               /\ files' = RemoveFiles(WriteFile(files, temp_path',
                                                 FileContent("document", raw_text)),
                                       {temp_path'})
               /\ response' = 400
          ELSE /\ pc = "sanitized"
               /\ \E permanent_path \in {PathJoin(UPLOAD_DIR, <<Name("", uuid_count + 1, ".txt")>>)} :
                  \E moved \in {IF failing = "shutil.move"
                                THEN files
                                ELSE MoveFile(files, temp_path, permanent_path)} :
                     files' = RemoveFiles(moved, {temp_path} \cap DOMAIN moved)
               /\ response' = 500
               /\ UNCHANGED temp_path
    /\ uuid_count' = uuid_count + 1
    /\ pc' = "failed"
    /\ UNCHANGED <<site, items, raw_text, normalized_text, masked_text, is_safe, reasons,
                   pii_gate_reasons, sanitize_level, usage_restrictions, attempts, session,
                   documents, notes, created_count, fn_vars, runs,
                   scout_vars, fetch_vars, knox_vars, audio_path,
                   files_to_delete, project_exists>>

\* create_note: db.add(db_note); db.commit(); return 201
create_note_store ==
    /\ site = "create_note"
    /\ pc = "sanitized"
    /\ notes' = Append(notes, [masked_body |-> masked_text.v,
                               sanitize_level |-> sanitize_level,
                               pii_gate_reasons |-> OrNone(pii_gate_reasons)])
    /\ response' = 201
    /\ pc' = "responded"
    /\ UNCHANGED <<site, items, raw_text, normalized_text, masked_text, is_safe, reasons,
                   pii_gate_reasons, sanitize_level, usage_restrictions, attempts, session,
                   documents, created_count, fn_vars, runs,
                   scout_vars, fetch_vars, knox_vars, disk_vars>>

\* raw_content = f"{title}\n{published}\n{link}\n\n{summary_text}"
raw_content(item) ==
    item.title \o <<"\n">> \o item.published \o <<"\n">> \o item.link
        \o <<"\n", "\n">> \o item.summary_text

\* create_project_from_feed: the next item of the loop enters the pipeline.
create_project_from_feed_next_item ==
    /\ site = "create_project_from_feed"
    /\ pc \in {"start", "skipped", "stored"}
    /\ items # <<>>
    /\ raw_text' = raw_content(Head(items))
    /\ items' = Tail(items)
    /\ EnterPipeline(raw_content(Head(items)))
    /\ UNCHANGED <<site, is_safe, reasons, session, documents, notes, created_count,
                   response, fn_vars, runs, scout_vars, fetch_vars, knox_vars, disk_vars>>

\* create_project_from_feed: raw_content is written to a file, which is
\* moved to the permanent path (the same path); db.add(db_document);
\* created_count += 1
create_project_from_feed_store ==
    /\ site = "create_project_from_feed"
    /\ pc = "sanitized"
    /\ \E temp_txt_path \in {PathJoin(UPLOAD_DIR, <<Name("", uuid_count + 1, ".txt")>>)} :
       \E permanent_path \in {PathJoin(UPLOAD_DIR, <<Name("", uuid_count + 1, ".txt")>>)} :
          /\ files' = MoveFile(WriteFile(files, temp_txt_path, FileContent("document", raw_text)),
                               temp_txt_path, permanent_path)
          /\ session' = Append(session, NewDocument(permanent_path))
    /\ uuid_count' = uuid_count + 1
    /\ created_count' = created_count + 1
    /\ pc' = "stored"
    /\ UNCHANGED <<site, items, raw_text, normalized_text, masked_text, is_safe, reasons,
                   pii_gate_reasons, sanitize_level, usage_restrictions, attempts, documents,
                   notes, response, fn_vars, runs,
                   scout_vars, fetch_vars, knox_vars, temp_path, audio_path, files_to_delete,
                   project_exists>>

\* create_project_from_feed: after the loop, db.commit() and the response.
create_project_from_feed_commit ==
    /\ site = "create_project_from_feed"
    /\ pc \in {"start", "skipped", "stored"}
    /\ items = <<>>
    /\ documents' = documents \o session
    /\ session' = <<>>
    /\ response' = 200
    /\ pc' = "responded"
    /\ UNCHANGED <<site, items, raw_text, normalized_text, masked_text, is_safe, reasons,
                   pii_gate_reasons, sanitize_level, usage_restrictions, attempts, notes,
                   created_count, fn_vars, runs, scout_vars, fetch_vars, knox_vars, disk_vars>>

\* delete_project, phase 1: "Count all files before delete".  The documents
\* of the project are the rows of documents; file_path = UPLOAD_DIR /
\* doc.file_path is listed if it exists.  (The model has no journalist note,
\* so no image is listed.)
delete_project_files(docs, disk) ==
    SelectSeq([i \in DOMAIN docs |-> PathJoin(UPLOAD_DIR, docs[i].file_path)],
              LAMBDA file_path : file_path \in DOMAIN disk)

delete_project_count ==
    /\ pc \in {"responded", "fatal"}
    /\ project_exists
    /\ files_to_delete' = delete_project_files(documents, files)
    /\ pc' = "delete_counted"
    /\ UNCHANGED <<site, items, raw_text, normalized_text, masked_text, is_safe, reasons,
                   pii_gate_reasons, sanitize_level, usage_restrictions, attempts, session,
                   documents, notes, created_count, response, fn_vars, runs,
                   scout_vars, fetch_vars, knox_vars, files, uuid_count,
                   temp_path, audio_path, project_exists>>

\* Phase 2: os.remove of each listed file; an os.remove that raises is
\* caught and the file stays.
delete_project_remove_files ==
    /\ pc = "delete_counted"
    /\ \E failed_deletes \in SUBSET {files_to_delete[i] : i \in DOMAIN files_to_delete} :
          files' = RemoveFiles(files, {files_to_delete[i] : i \in DOMAIN files_to_delete}
                                          \ failed_deletes)
    /\ pc' = "delete_removed"
    /\ UNCHANGED <<site, items, raw_text, normalized_text, masked_text, is_safe, reasons,
                   pii_gate_reasons, sanitize_level, usage_restrictions, attempts, session,
                   documents, notes, created_count, response, fn_vars, runs,
                   scout_vars, fetch_vars, knox_vars, uuid_count,
                   temp_path, audio_path, files_to_delete, project_exists>>

\* Phase 3: a listed file that still exists blocks the delete with a 500.
\* Phase 4: the rows of the project are deleted and committed; 204.
delete_project_finish ==
    /\ pc = "delete_removed"
    /\ IF \E i \in DOMAIN files_to_delete : files_to_delete[i] \in DOMAIN files
       THEN /\ response' = 500
            /\ pc' = "delete_blocked"
            /\ UNCHANGED <<documents, notes, project_exists>>
       ELSE /\ documents' = <<>>
            /\ notes' = <<>>
            /\ project_exists' = FALSE
            /\ response' = 204
            /\ pc' = "deleted"
    /\ UNCHANGED <<site, items, raw_text, normalized_text, masked_text, is_safe, reasons,
                   pii_gate_reasons, sanitize_level, usage_restrictions, attempts, session,
                   created_count, fn_vars, runs,
                   scout_vars, fetch_vars, knox_vars, files, uuid_count, temp_path, audio_path,
                   files_to_delete>>

\* delete_project of a project that is not there: 404
delete_project_not_found ==
    /\ pc = "deleted"
    /\ ~project_exists
    /\ response' = 404
    /\ pc' = "not_found"
    /\ UNCHANGED <<site, items, raw_text, normalized_text, masked_text, is_safe, reasons,
                   pii_gate_reasons, sanitize_level, usage_restrictions, attempts, session,
                   documents, notes, created_count, fn_vars, runs,
                   scout_vars, fetch_vars, knox_vars, disk_vars>>

Next ==
    \/ Begin("upload_document")
    \/ TryNormal("upload_document")
    \/ TryStrict("upload_document")
    \/ UseParanoidChecked("upload_document")
    \/ StoreDocument("upload_document")
    \/ upload_document_fails
    \/ Begin("upload_recording")
    \/ TryNormal("upload_recording")
    \/ TryStrict("upload_recording")
    \/ UseParanoidChecked("upload_recording")
    \/ StoreDocument("upload_recording")
    \/ Begin("create_note")
    \/ TryNormal("create_note")
    \/ TryStrict("create_note")
    \/ create_note_use_paranoid
    \/ create_note_store
    \/ create_project_from_feed_next_item
    \/ TryNormal("create_project_from_feed")
    \/ TryStrict("create_project_from_feed")
    \/ create_project_from_feed_use_paranoid
    \/ create_project_from_feed_store
    \/ create_project_from_feed_commit
    \/ delete_project_count
    \/ delete_project_remove_files
    \/ delete_project_finish
    \/ delete_project_not_found

Spec == Init /\ [][Next]_vars

(***************************************************************************)
(* mask_text called on its own: the call, the call on its own result, and  *)
(* the gate on the result.                                                 *)
(***************************************************************************)
\* The levels a caller may name: the three of mask_text's docstring and one
\* that is none of them.
InitMask ==
    LET MaskInputs == Concats(MaskFragments, MaxFrags) \cup {RefCluster} \cup DateTexts
    IN
    /\ pipeline_idle
    /\ runs = <<>>
    /\ scout_idle /\ fetch_idle /\ knox_idle
    /\ fn = "mask_text"
    /\ arg_text \in MaskInputs
    /\ arg_level \in {"normal", "strict", "paranoid", "unknown"}
    /\ result = None
    /\ result2 = None
    /\ verdict = None
    /\ error = "none"
    /\ step = "ready"

\* mask_text(arg_text, arg_level): every branch returns, none raises.
mask_text_call ==
    /\ fn = "mask_text"
    /\ step = "ready"
    /\ result' = Some(mask_text(arg_text, arg_level))
    /\ error' = "none"
    /\ step' = "returned"
    /\ UNCHANGED <<pipeline_vars, disk_vars, runs, scout_vars, fetch_vars, knox_vars,
                   fn, arg_text, arg_level, result2, verdict>>

\* mask_text(result, arg_level)
mask_text_again ==
    /\ fn = "mask_text"
    /\ step = "returned"
    /\ result2' = Some(mask_text(result.v, arg_level))
    /\ step' = "remasked"
    /\ UNCHANGED <<pipeline_vars, disk_vars, runs, scout_vars, fetch_vars, knox_vars,
                   fn, arg_text, arg_level, result, verdict, error>>

\* pii_gate_check(result)
pii_gate_check_call ==
    /\ fn = "mask_text"
    /\ step = "remasked"
    /\ verdict' = Some(pii_gate_check(result.v))
    /\ step' = "checked"
    /\ UNCHANGED <<pipeline_vars, disk_vars, runs, scout_vars, fetch_vars, knox_vars,
                   fn, arg_text, arg_level, result, result2, error>>

NextMask ==
    \/ mask_text_call
    \/ mask_text_again
    \/ pii_gate_check_call

SpecMask == InitMask /\ [][NextMask]_vars

(***************************************************************************)
(* normalize_text called on its own, and on its own result.                *)
(***************************************************************************)
InitNormalize ==
    LET NormInputs == UNION {[1..k -> {"a", " ", "\n", "\r"}] : k \in 0..MaxNormLen}
    IN
    /\ pipeline_idle
    /\ runs = <<>>
    /\ scout_idle /\ fetch_idle /\ knox_idle
    /\ fn = "normalize_text"
    /\ arg_text \in NormInputs
    /\ arg_level = "none"
    /\ result = None
    /\ result2 = None
    /\ verdict = None
    /\ error = "none"
    /\ step = "ready"

normalize_text_call ==
    /\ fn = "normalize_text"
    /\ step = "ready"
    /\ result' = Some(normalize_text(arg_text))
    /\ step' = "returned"
    /\ UNCHANGED <<pipeline_vars, disk_vars, runs, scout_vars, fetch_vars, knox_vars,
                   fn, arg_text, arg_level, result2, verdict, error>>

normalize_text_again ==
    /\ fn = "normalize_text"
    /\ step = "returned"
    /\ result2' = Some(normalize_text(result.v))
    /\ step' = "renormalized"
    /\ UNCHANGED <<pipeline_vars, disk_vars, runs, scout_vars, fetch_vars, knox_vars,
                   fn, arg_text, arg_level, result, verdict, error>>

NextNormalize ==
    \/ normalize_text_call
    \/ normalize_text_again

SpecNormalize == InitNormalize /\ [][NextNormalize]_vars

(***************************************************************************)
(* Concurrent requests.  Two upload_document requests are in their         *)
(* sanitization pipelines at once; their steps interleave in every order.  *)
(* Each call of the handler has its own locals; the functions it calls     *)
(* read their arguments only.                                              *)
(***************************************************************************)
Runs == {1, 2}

\* The locals of a call before its pipeline.
NewLocals ==
    [pc |-> "start", raw_text |-> <<>>, normalized_text |-> <<>>, masked_text |-> None,
     is_safe |-> FALSE, reasons |-> <<>>, pii_gate_reasons |-> None,
     sanitize_level |-> NORMAL, usage_restrictions |-> AllAllowed]

\* normalize_text and the initialisation of the pipeline's locals
sanitize_enter(text) ==
    [NewLocals EXCEPT !.pc = "try_normal",
                      !.raw_text = text,
                      !.normalized_text = normalize_text(text),
                      !.pii_gate_reasons = Some(EmptyDict)]

\* "Try normal masking"
sanitize_try_normal(l) ==
    Bind(mask_text(l.normalized_text, "normal"), LAMBDA m :
    Bind(pii_gate_check(m), LAMBDA g :
        IF g.is_safe
        THEN [l EXCEPT !.masked_text = Some(m), !.is_safe = TRUE, !.reasons = g.reasons,
                       !.sanitize_level = NORMAL, !.pii_gate_reasons = None,
                       !.pc = "sanitized"]
        ELSE [l EXCEPT !.masked_text = Some(m), !.is_safe = FALSE, !.reasons = g.reasons,
                       !.pii_gate_reasons = Some(SetItem(l.pii_gate_reasons.v, "normal", g.reasons)),
                       !.pc = "try_strict"]))

\* "Try strict masking"
sanitize_try_strict(l) ==
    Bind(mask_text(l.normalized_text, "strict"), LAMBDA m :
    Bind(pii_gate_check(m), LAMBDA g :
        IF g.is_safe
        THEN [l EXCEPT !.masked_text = Some(m), !.is_safe = TRUE, !.reasons = g.reasons,
                       !.sanitize_level = STRICT, !.usage_restrictions = AllAllowed,
                       !.pc = "sanitized"]
        ELSE [l EXCEPT !.masked_text = Some(m), !.is_safe = FALSE, !.reasons = g.reasons,
                       !.pii_gate_reasons = Some(SetItem(l.pii_gate_reasons.v, "strict", g.reasons)),
                       !.pc = "use_paranoid"]))

\* "Use paranoid masking (must always pass gate)"; HTTP 500 when it does not
sanitize_use_paranoid(l) ==
    Bind(mask_text(l.normalized_text, "paranoid"), LAMBDA m :
    Bind(pii_gate_check(m), LAMBDA g :
        IF ~g.is_safe
        THEN [l EXCEPT !.masked_text = Some(m), !.is_safe = FALSE, !.reasons = g.reasons,
                       !.pc = "fatal"]
        ELSE [l EXCEPT !.masked_text = Some(m), !.is_safe = TRUE, !.reasons = g.reasons,
                       !.sanitize_level = PARANOID, !.usage_restrictions = NoneAllowed,
                       !.pc = "sanitized"]))

\* The pipeline of one call run from its first step to its last.
sanitize_alone(text) ==
    Bind(sanitize_try_normal(sanitize_enter(text)), LAMBDA l1 :
    Bind(IF l1.pc = "try_strict" THEN sanitize_try_strict(l1) ELSE l1, LAMBDA l2 :
         IF l2.pc = "use_paranoid" THEN sanitize_use_paranoid(l2) ELSE l2))

\* Locals that every call shares with the first one.
LocalsShared(rs, r) == rs[1].locals

\* The locals of call r
Locals(rs, r) == rs[r].locals

InitConcurrent ==
    LET \* The pairs of texts of two requests: MaxFrags fragments between them, each
        \* text at least one.
        ConcurrentTexts ==
            UNION {(Concats(Fragments, k) \ {<<>>}) \X (Concats(Fragments, MaxFrags - k) \ {<<>>}) :
                      k \in 1..(MaxFrags - 1)}
    IN
    /\ pipeline_idle
    /\ fn_idle
    /\ scout_idle /\ fetch_idle /\ knox_idle
    /\ \E texts \in ConcurrentTexts :
          runs = [r \in Runs |-> [text |-> texts[r], locals |-> NewLocals]]

concurrent_enter ==
    /\ \E r \in Runs :
          /\ Locals(runs, r).pc = "start"
          /\ runs' = [runs EXCEPT ![r].locals = sanitize_enter(runs[r].text)]
    /\ UNCHANGED <<pipeline_vars, fn_vars, disk_vars, scout_vars, fetch_vars, knox_vars>>

concurrent_try_normal ==
    /\ \E r \in Runs :
          /\ Locals(runs, r).pc = "try_normal"
          /\ runs' = [runs EXCEPT ![r].locals = sanitize_try_normal(Locals(runs, r))]
    /\ UNCHANGED <<pipeline_vars, fn_vars, disk_vars, scout_vars, fetch_vars, knox_vars>>

concurrent_try_strict ==
    /\ \E r \in Runs :
          /\ Locals(runs, r).pc = "try_strict"
          /\ runs' = [runs EXCEPT ![r].locals = sanitize_try_strict(Locals(runs, r))]
    /\ UNCHANGED <<pipeline_vars, fn_vars, disk_vars, scout_vars, fetch_vars, knox_vars>>

concurrent_use_paranoid ==
    /\ \E r \in Runs :
          /\ Locals(runs, r).pc = "use_paranoid"
          /\ runs' = [runs EXCEPT ![r].locals = sanitize_use_paranoid(Locals(runs, r))]
    /\ UNCHANGED <<pipeline_vars, fn_vars, disk_vars, scout_vars, fetch_vars, knox_vars>>

NextConcurrent ==
    \/ concurrent_enter
    \/ concurrent_try_normal
    \/ concurrent_try_strict
    \/ concurrent_use_paranoid

SpecConcurrent == InitConcurrent /\ [][NextConcurrent]_vars

(***************************************************************************)
(* Scout: the feed table, the item table and scout.fetch_all_feeds         *)
(***************************************************************************)
\* The feeds list_scout_feeds seeds; a URL is a text like the others.
\* https://polisen.se/aktuellt/rss/vastra-gotaland/handelser-rss---vastra-gotaland/
\* and .../pressmeddelanden-rss---vastra-gotaland/ are written by their
\* differing part, https://www.domstol.se/feed/56/?searchPageId=1139&scope=news
\* by its host.
DefaultFeedUrls ==
    << <<"h", "a", "n", "d", "e", "l", "s", "e", "r">>,
       <<"p", "r", "e", "s", "s">>,
       <<"d", "o", "m", "s", "t", "o", "l">> >>

\* feed_data.url of create_scout_feed: none, and two where one is the other
\* with a character more.
ScoutUrls == {<<>>, <<"u">>, <<"u", "a">>}

\* What parse_rss_feed returns outside fixture mode: an entry known by id, by
\* link and by title alone, all three with the same stable id; an id that
\* joins on to ScoutUrls' shorter URL as the id "c" does to the longer; an
\* entry after which one with the id "c" and without title text follows
\* (title_elem.text of <title/> is None); that one with a title; no entry.
EntryLists ==
    LET Entry(id, link, title) ==
            [id |-> id, link |-> link, title |-> title, published |-> <<>>, updated |-> <<>>]
    IN { << Entry(<<"a">>, <<"l">>, Some(<<"t">>)), Entry(<<>>, <<"a">>, Some(<<"t">>)),
            Entry(<<>>, <<>>, Some(<<"a">>)) >>,
         << Entry(<<"a", "c">>, <<>>, Some(<<"t">>)) >>,
         << Entry(<<"b">>, <<>>, Some(<<"t">>)), Entry(<<"c">>, <<>>, None) >>,
         << Entry(<<"c">>, <<>>, Some(<<"t">>)) >>,
         <<>> }

\* hashlib.sha256 of hash_input, taken to be free of collisions: the digest
\* is known by the text it is the digest of.
calculate_guid_hash(feed_url, entry) ==
    LET stable_id == IF entry.id # <<>> THEN entry.id
                     ELSE IF entry.link # <<>> THEN entry.link
                     ELSE entry.title.v
                          \o (IF entry.published # <<>> THEN entry.published ELSE entry.updated)
    IN [sha256 |-> feed_url \o stable_id]

\* The ScoutItem rows a query of the session sees: the committed ones and,
\* flushed before the query runs, the ones added since the last commit.
session_rows(committed, pending) == committed \o pending

\* A check that looks at the newest row only.
existing_newest_only(rows, guid_hash) ==
    rows # <<>> /\ rows[Len(rows)].guid_hash = guid_hash

\* db.query(ScoutItem).filter(ScoutItem.guid_hash == guid_hash).first()
existing(rows, guid_hash) ==
    \E i \in DOMAIN rows : rows[i].guid_hash = guid_hash

\* The loop over the entries of one feed from entry k on: the rows added,
\* and whether an exception ended it (None has no slice, and no + with str).
RECURSIVE fetch_entries(_, _, _, _, _, _)
fetch_entries(committed, pending, feed_id, feed_url, entries, k) ==
    IF k > Len(entries) THEN [raised |-> FALSE, pending |-> pending]
    ELSE IF entries[k].id = <<>> /\ entries[k].link = <<>> /\ entries[k].title.is_none
    THEN [raised |-> TRUE, pending |-> pending]
    ELSE \* TLC evaluates a LET anew at each use; the hash is bound once.
         CHOOSE r \in
            { IF existing(session_rows(committed, pending), guid_hash)
              THEN fetch_entries(committed, pending, feed_id, feed_url, entries, k + 1)
              ELSE IF entries[k].title.is_none
              THEN [raised |-> TRUE, pending |-> pending]
              ELSE fetch_entries(committed,
                                 Append(pending, [feed_id |-> feed_id, guid_hash |-> guid_hash]),
                                 feed_id, feed_url, entries, k + 1) :
              guid_hash \in {calculate_guid_hash(feed_url, entries[k])} } : TRUE

\* A run that takes every feed, enabled or not.
all_feeds(feeds) == DOMAIN feeds

\* db.query(ScoutFeed).filter(ScoutFeed.is_enabled == True).all(), as ids
enabled_feeds(feeds) == {f \in DOMAIN feeds : feeds[f].is_enabled}

\* The loop over the feeds from id f on: the committed rows, and in out the
\* results and the feeds logger.error reported as failed.
RECURSIVE fetch_feeds(_, _, _, _, _, _)
fetch_feeds(feeds, committed, out, mode, served, f) ==
    IF f > Len(feeds) THEN [items |-> committed, results |-> out.results, failed |-> out.failed]
    ELSE IF f \notin enabled_feeds(feeds) \/ (feeds[f].url = <<>> /\ mode # "fixture")
    THEN fetch_feeds(feeds, committed, out, mode, served, f + 1)
    ELSE CHOOSE r \in
            { fetch_feeds(feeds,
                          IF got.raised THEN committed ELSE committed \o got.pending,
                          [results |-> SetItem(out.results, f,
                                               IF got.raised THEN 0 ELSE Len(got.pending)),
                           failed |-> IF got.raised THEN out.failed \cup {f} ELSE out.failed],
                          mode, served, f + 1) :
              got \in {fetch_entries(committed, <<>>, f,
                                     IF feeds[f].url # <<>> THEN feeds[f].url
                                     ELSE <<"f", "i", "x", "t", "u", "r", "e", ":", "/", "/",
                                            "l", "o", "c", "a", "l">>,
                                     served[f], 1)} } : TRUE

\* fetch_all_feeds(db, mode), the whole call: served is what parse_rss_feed
\* returns for each feed the run asks it about.
fetch_all_feeds ==
    LET \* get_fixture_rss_xml at the time.time() values 0 and 1: two items whose
        \* guid and link end in the timestamp.
        FixtureLists ==
            { << [id |-> <<"1", "-", t>>, link |-> <<"i", "1", "-", t>>,
                  title |-> Some(<<"T", "1">>), published |-> <<"n">>, updated |-> <<"n">>],
                 [id |-> <<"2", "-", t>>, link |-> <<"i", "2", "-", t>>,
                  title |-> Some(<<"T", "2">>), published |-> <<"n">>, updated |-> <<"n">>] >> :
              t \in {"0", "1"} }
    IN
    \E mode \in {scout_mode} :
        /\ Len(scout_items) <= MaxItems
        /\ \E served \in [enabled_feeds(scout_feeds) ->
                             IF mode = "fixture" THEN FixtureLists ELSE EntryLists] :
              /\ \A f \in DOMAIN served :
                    \* the seeded feeds are out of reach outside fixture mode
                    scout_feeds[f].url \notin ScoutUrls
                        => (mode = "fixture" \/ served[f] = <<>>)
              /\
                 \E run \in {fetch_feeds(scout_feeds, scout_items,
                                         [results |-> <<>>, failed |-> {}], mode, served, 1)} :
                   /\ scout_items' = run.items
                   /\ scout_last' = [op |-> "fetch_all_feeds", feed_id |-> 0, mode |-> mode,
                                     served |-> served, results |-> run.results,
                                     failed |-> run.failed]
                   /\ UNCHANGED <<scout_feeds, scout_mode, pipeline_vars, fn_vars, runs,
                                  disk_vars, fetch_vars, knox_vars>>

\* GET /api/scout/feeds: the lazy seed, then every row.
list_scout_feeds ==
    /\ scout_feeds' =
          IF scout_feeds = <<>>
          THEN [i \in DOMAIN DefaultFeedUrls |->
                    [url |-> DefaultFeedUrls[i], is_enabled |-> TRUE]]
          ELSE IF \E f \in DOMAIN scout_feeds : scout_feeds[f].url = DefaultFeedUrls[3]
          THEN scout_feeds
          ELSE Append(scout_feeds, [url |-> DefaultFeedUrls[3], is_enabled |-> TRUE])
    /\ scout_last' = [op |-> "list_scout_feeds", feed_id |-> 0, mode |-> "none",
                      served |-> <<>>, results |-> <<>>, failed |-> {}]
    /\ UNCHANGED <<scout_items, scout_mode, pipeline_vars, fn_vars, runs, disk_vars,
                   fetch_vars, knox_vars>>

\* POST /api/scout/feeds
create_scout_feed ==
    /\ Len(scout_feeds) < MaxFeeds
    /\ \E url \in ScoutUrls :
          scout_feeds' = Append(scout_feeds, [url |-> url, is_enabled |-> TRUE])
    /\ scout_last' = [op |-> "create_scout_feed", feed_id |-> Len(scout_feeds) + 1,
                      mode |-> "none", served |-> <<>>, results |-> <<>>, failed |-> {}]
    /\ UNCHANGED <<scout_items, scout_mode, pipeline_vars, fn_vars, runs, disk_vars,
                   fetch_vars, knox_vars>>

\* DELETE /api/scout/feeds/{feed_id}; an id without a row is answered 404.
delete_scout_feed ==
    /\ \E feed_id \in 1..(Len(scout_feeds) + 1) :
          /\ scout_feeds' = IF feed_id \in DOMAIN scout_feeds
                            THEN [scout_feeds EXCEPT ![feed_id].is_enabled = FALSE]
                            ELSE scout_feeds
          /\ scout_last' = [op |-> "delete_scout_feed", feed_id |-> feed_id, mode |-> "none",
                            served |-> <<>>, results |-> <<>>, failed |-> {}]
    /\ UNCHANGED <<scout_items, scout_mode, pipeline_vars, fn_vars, runs, disk_vars,
                   fetch_vars, knox_vars>>

\* An empty database; fetch_scout_feeds passes no mode, so the default,
\* "fixture", is the mode of its runs; "live" is the other the function takes.
InitScout ==
    /\ pipeline_idle /\ fn_idle /\ runs = <<>>
    /\ fetch_idle /\ knox_idle
    /\ scout_feeds = <<>> /\ scout_items = <<>>
    /\ scout_mode \in {"fixture", "live"}
    /\ scout_last = [op |-> "none", feed_id |-> 0, mode |-> "none", served |-> <<>>,
                     results |-> <<>>, failed |-> {}]

NextScout ==
    \/ fetch_all_feeds
    \/ list_scout_feeds
    \/ create_scout_feed
    \/ delete_scout_feed

SpecScout == InitScout /\ [][NextScout]_vars

(***************************************************************************)
(* feeds.validate_and_fetch                                                *)
(***************************************************************************)
MAX_REDIRECTS == 5

\* An address is known by what ipaddress says of it: "public", or one of
\* the kinds _is_private_ip blocks ("unspecified" is 0.0.0.0).
is_private_ip(ip) ==
    ip \in {"private", "loopback", "link_local", "reserved", "unspecified"}

\* The records a name server may hold for a host: its A and its AAAA
\* addresses, in order.
DnsRecords ==
    [public   |-> [a |-> <<"public">>, aaaa |-> <<>>],
     private  |-> [a |-> <<"private">>, aaaa |-> <<>>],
     dual     |-> [a |-> <<"public">>, aaaa |-> <<"loopback">>],
     loopback |-> [a |-> <<"loopback">>, aaaa |-> <<"loopback">>],
     none     |-> [a |-> <<>>, aaaa |-> <<>>]]

\* The hosts of the URLs, "" for a URL without one, and the records each
\* may have: those of "rebind.example" change with time.
HostRecords ==
    [feed_example     |-> {"public"},
     intranet_example |-> {"private"},
     dual_example     |-> {"dual"},
     rebind_example   |-> {"public", "private"},
     gone_example     |-> {"none"},
     localhost        |-> {"loopback"}]

FetchUrls ==
    [scheme : {"http", "ftp"}, hostname : DOMAIN HostRecords \cup {""}]

\* urlparse(url).scheme in ('http', 'https')
validate_url_scheme(url) == url.scheme \in {"http", "https"}

\* socket.gethostbyname gives the first A address of the host, and raises
\* gaierror when it has none: "True" for a public address, "False" for a
\* blocked one, "ValueError" for a host that does not resolve.
resolve_and_validate_host(records, hostname) ==
    IF DnsRecords[records[hostname]].a = <<>> THEN "ValueError"
    ELSE IF is_private_ip(DnsRecords[records[hostname]].a[1]) THEN "False"
    ELSE "True"

\* The checks before the loop.
validate_and_fetch_begin ==
    /\ fetch_pc = "start"
    /\ IF /\ validate_url_scheme(fetch_url)
          /\ fetch_url.hostname # ""
          /\ fetch_url.hostname # "localhost"
          /\ resolve_and_validate_host(dns, fetch_url.hostname) = "True"
       THEN fetch_pc' = "request" /\ fetch_result' = "none"
       ELSE fetch_pc' = "raised" /\ fetch_result' = "ValueError"
    /\ current_url' = fetch_url
    /\ UNCHANGED <<dns, fetch_url, redirects_followed, requests_sent, pipeline_vars, fn_vars,
                   runs, disk_vars, scout_vars, knox_vars>>

\* One pass of the loop: session.get(current_url, allow_redirects=False),
\* which connects to one of the addresses the host has at that moment, then
\* the checks on the response.  reply is what the server answers: a redirect
\* to a URL, a redirect without Location, or a final status.
validate_and_fetch_request ==
    /\ fetch_pc = "request"
    /\ redirects_followed <= MAX_REDIRECTS
    /\ \E reply \in [status : {302}, location : FetchUrls \cup {[scheme |-> "", hostname |-> ""]}]
                      \cup [status : {200, 404}, location : {[scheme |-> "", hostname |-> ""]}] :
          LET record    == DnsRecords[dns[current_url.hostname]]
              addresses == {record.a[i] : i \in DOMAIN record.a}
                              \cup {record.aaaa[i] : i \in DOMAIN record.aaaa}
              Raise     == /\ fetch_pc' = "raised" /\ fetch_result' = "ValueError"
                           /\ UNCHANGED <<current_url, redirects_followed>>
          IN IF current_url.hostname = "" \/ addresses = {}
             THEN \* requests raises before anything is sent
                  /\ Raise
                  /\ UNCHANGED requests_sent
             ELSE /\ \E address \in addresses :
                        requests_sent' = requests_sent \cup
                            {[scheme |-> current_url.scheme,
                              hostname |-> current_url.hostname, address |-> address]}
                  /\ IF resolve_and_validate_host(dns, current_url.hostname) # "True"
                     THEN Raise
                     ELSE IF reply.status = 302
                     THEN IF \/ reply.location.scheme = ""       \* no Location header
                             \/ ~validate_url_scheme(reply.location)
                             \/ /\ reply.location.hostname # ""
                                /\ resolve_and_validate_host(dns, reply.location.hostname)
                                       # "True"
                          THEN Raise
                          ELSE /\ current_url' = reply.location
                               /\ redirects_followed' = redirects_followed + 1
                               /\ UNCHANGED <<fetch_pc, fetch_result>>
                     ELSE IF reply.status = 404
                     THEN Raise                                  \* raise_for_status
                     ELSE \* the final check of response.url, then the content
                          /\ fetch_pc' = "returned"
                          /\ fetch_result' = "content"
                          /\ UNCHANGED <<current_url, redirects_followed>>
    /\ UNCHANGED <<dns, fetch_url, pipeline_vars, fn_vars, runs, disk_vars, scout_vars,
                   knox_vars>>

\* The loop ends with redirects_followed > MAX_REDIRECTS: "Too many redirects".
validate_and_fetch_too_many ==
    /\ fetch_pc = "request"
    /\ redirects_followed > MAX_REDIRECTS
    /\ fetch_pc' = "raised"
    /\ fetch_result' = "ValueError"
    /\ UNCHANGED <<dns, fetch_url, current_url, redirects_followed, requests_sent,
                   pipeline_vars, fn_vars, runs, disk_vars, scout_vars, knox_vars>>

\* The name server's answer for a host changes (a record's time to live has
\* run out).
dns_changes ==
    /\ \E hostname \in DOMAIN HostRecords :
          \E kind \in HostRecords[hostname] \ {dns[hostname]} :
              dns' = [dns EXCEPT ![hostname] = kind]
    /\ UNCHANGED <<fetch_url, current_url, redirects_followed, requests_sent, fetch_pc,
                   fetch_result, pipeline_vars, fn_vars, runs, disk_vars, scout_vars,
                   knox_vars>>

InitFetch ==
    /\ pipeline_idle /\ fn_idle /\ runs = <<>>
    /\ scout_idle /\ knox_idle
    /\ dns \in [DOMAIN HostRecords -> DOMAIN DnsRecords]
    /\ \A hostname \in DOMAIN HostRecords : dns[hostname] \in HostRecords[hostname]
    /\ fetch_url \in FetchUrls
    /\ current_url = <<>>
    /\ redirects_followed = 0
    /\ requests_sent = {}
    /\ fetch_pc = "start"
    /\ fetch_result = "none"

NextFetch ==
    \/ validate_and_fetch_begin
    \/ validate_and_fetch_request
    \/ validate_and_fetch_too_many
    \/ dns_changes

SpecFetch == InitFetch /\ [][NextFetch]_vars

(***************************************************************************)
(* fortknox-local: compile_report                                          *)
(***************************************************************************)

\* if TESTMODE: the fixture is returned and no LLM is called.
compile_report_begin ==
    /\ knox_pc = "start"
    /\ IF TESTMODE
       THEN knox_pc' = "done" /\ knox_response' = 200
       ELSE knox_pc' = "call" /\ knox_response' = 0
    /\ UNCHANGED <<TESTMODE, policy_mode, attempt, llm_calls, pipeline_vars, fn_vars, runs,
                   disk_vars, scout_vars, fetch_vars>>

\* A loop that goes round three times.
compile_report_attempt_thrice ==
    /\ knox_pc = "call"
    /\ attempt < 3
    /\ \E reply \in {"no_json", "valid"} :
          /\ llm_calls' = Append(llm_calls, [temperature |-> "0.0", reminder |-> attempt >= 1,
                                             reply |-> reply])
          /\ IF reply = "valid"
             THEN knox_pc' = "done" /\ knox_response' = 200 /\ attempt' = attempt
             ELSE attempt' = attempt + 1 /\ UNCHANGED <<knox_pc, knox_response>>
    /\ UNCHANGED <<TESTMODE, policy_mode, pipeline_vars, fn_vars, runs, disk_vars, scout_vars,
                   fetch_vars>>

\* One pass of `for attempt in range(2)`: the call, then parse and validate.
compile_report_attempt ==
    LET \* What one call of call_llama_server can meet: requests.post raising
        \* ConnectionError or Timeout, raise_for_status raising HTTPError, a body
        \* that is not JSON, a "content" that is not a string, and a content that
        \* holds no JSON object, a broken one, one whose fields do not validate, or
        \* a valid one, bare or in a ``` block.
        LlmReplies ==
            {"ConnectionError", "Timeout", "HTTPError", "body_not_json", "content_not_text",
             "no_json", "invalid_json", "invalid_fields", "valid", "valid_in_code_block"}
    IN
    /\ knox_pc = "call"
    /\ attempt < 2
    /\ \E reply \in LlmReplies :
          /\ llm_calls' =
                Append(llm_calls,
                       [temperature |-> IF policy_mode = "external"
                                        THEN (IF attempt = 0 THEN "0.1" ELSE "0.0")
                                        ELSE (IF attempt = 0 THEN "0.2" ELSE "0.1"),
                        reminder |-> attempt = 1,
                        reply |-> reply])
          /\ CASE reply \in {"ConnectionError", "Timeout", "HTTPError"} ->
                    \* RequestException: HTTPException(503), re-raised
                    knox_pc' = "done" /\ knox_response' = 503 /\ attempt' = attempt
               [] reply = "body_not_json" ->
                    \* response.json() raises: a RequestException in the requests
                    \* releases where JSONDecodeError is one, a ValueError before
                    /\ knox_pc' = "done" /\ attempt' = attempt
                    /\ knox_response' \in {503, 500}
               [] reply = "content_not_text" ->
                    \* llm_text.strip() raises: except Exception
                    knox_pc' = "done" /\ knox_response' = 500 /\ attempt' = attempt
               [] reply \in {"no_json", "invalid_json", "invalid_fields"} ->
                    \* except (ValueError, ValidationError): the loop goes on
                    attempt' = attempt + 1 /\ UNCHANGED <<knox_pc, knox_response>>
               [] reply \in {"valid", "valid_in_code_block"} ->
                    \* break, return llm_response
                    knox_pc' = "done" /\ knox_response' = 200 /\ attempt' = attempt
    /\ UNCHANGED <<TESTMODE, policy_mode, pipeline_vars, fn_vars, runs, disk_vars, scout_vars,
                   fetch_vars>>

\* The else of the loop: ValueError, answered 500.
compile_report_exhausted ==
    /\ knox_pc = "call"
    /\ attempt = 2
    /\ knox_pc' = "done"
    /\ knox_response' = 500
    /\ UNCHANGED <<TESTMODE, policy_mode, attempt, llm_calls, pipeline_vars, fn_vars, runs,
                   disk_vars, scout_vars, fetch_vars>>

InitCompile ==
    /\ pipeline_idle /\ fn_idle /\ runs = <<>>
    /\ scout_idle /\ fetch_idle
    /\ TESTMODE \in BOOLEAN
    /\ policy_mode \in {"internal", "external"}
    /\ attempt = 0
    /\ llm_calls = <<>>
    /\ knox_pc = "start"
    /\ knox_response = 0

NextCompile ==
    \/ compile_report_begin
    \/ compile_report_attempt
    \/ compile_report_exhausted

SpecCompile == InitCompile /\ [][NextCompile]_vars

(***************************************************************************)
(* Properties                                                              *)
(***************************************************************************)

\* C1: for every text t, pii_gate_check(mask_text(t, "paranoid")) returns
\* is_safe = True and no reason codes.  (SpecMask)
C1_ParanoidPassesGate ==
    (step = "checked" /\ arg_level = "paranoid")
        => (verdict.v.is_safe /\ verdict.v.reasons = <<>>)

\* C2: on every ingestion path, every persisted Document or ProjectNote whose
\* sanitize_level is PARANOID holds a masked text the gate finds safe.  (Spec)
C2_PersistedParanoidIsSafe ==
    /\ \A i \in DOMAIN documents :
          documents[i].sanitize_level = "paranoid"
              => pii_gate_check(documents[i].masked_text).is_safe
    /\ \A i \in DOMAIN notes :
          notes[i].sanitize_level = "paranoid"
              => pii_gate_check(notes[i].masked_body).is_safe

\* C3: whenever the gate rejects the paranoid-masked text, the operation is
\* in its fatal error (HTTP 500 to the caller) and has persisted or queued
\* no document and no note; no call site skips the item or goes on.  (Spec)
C3_ParanoidRejectionIsFatal ==
    (/\ attempts # <<>>
     /\ attempts[Len(attempts)] = "paranoid"
     /\ ~pii_gate_check(masked_text.v).is_safe)
        => (/\ pc = "fatal"
            /\ response = 500
            /\ documents = <<>>
            /\ notes = <<>>
            /\ session = <<>>)

\* C4: when the pipeline has sanitized a normalized text t, the level used is
\* NORMAL if the gate passes mask(t, normal), otherwise STRICT if it passes
\* mask(t, strict), otherwise PARANOID.  (Spec)
C4_LevelUsed ==
    pc = "sanitized"
        => sanitize_level =
              (IF pii_gate_check(mask_text(normalized_text, "normal")).is_safe
               THEN "normal"
               ELSE IF pii_gate_check(mask_text(normalized_text, "strict")).is_safe
                    THEN "strict"
                    ELSE "paranoid")

\* C4 witness: a document upload whose text failed the gate at normal and was
\* sanitized at strict.
C4_Witness ==
    /\ site = "upload_document"
    /\ pc = "sanitized"
    /\ attempts = <<"normal", "strict">>
    /\ sanitize_level = "strict"
    /\ ~pii_gate_check(mask_text(normalized_text, "normal")).is_safe

\* C5: every run of the escalation attempts normal, strict, paranoid in this
\* order, each at most once; a level is attempted only after every lighter
\* level failed the gate; nothing follows paranoid; and a run that is over
\* is in DONE (sanitized, then stored and answered) or in the fatal error.
\* (Spec)
C5_EscalationOrder ==
    /\ \E n \in 0..3 : attempts = SubSeq(<<"normal", "strict", "paranoid">>, 1, n)
    /\ Len(attempts) >= 2 => ~pii_gate_check(mask_text(normalized_text, "normal")).is_safe
    /\ Len(attempts) >= 3 => ~pii_gate_check(mask_text(normalized_text, "strict")).is_safe
    /\ (attempts # <<>> /\ pc \notin {"try_strict", "use_paranoid"})
          => pc \in {"sanitized", "stored", "responded", "fatal"}

\* C6: in every completed sanitization, and in every record stored from one,
\* ai_allowed and export_allowed are both true when the level used is NORMAL
\* or STRICT and both false when it is PARANOID.  (Spec)
C6_UsageRestrictions ==
    /\ pc = "sanitized"
          => /\ usage_restrictions.ai_allowed = (sanitize_level \in {"normal", "strict"})
             /\ usage_restrictions.export_allowed = (sanitize_level \in {"normal", "strict"})
    /\ \A d \in {documents[i] : i \in DOMAIN documents} \cup {session[i] : i \in DOMAIN session} :
          /\ d.usage_restrictions.ai_allowed = (d.sanitize_level \in {"normal", "strict"})
          /\ d.usage_restrictions.export_allowed = (d.sanitize_level \in {"normal", "strict"})

\* C6 witness: a stored document sanitized at paranoid, closed to AI and
\* export.
C6_Witness ==
    /\ pc = "responded"
    /\ documents # <<>>
    /\ documents[1].sanitize_level = "paranoid"
    /\ documents[1].usage_restrictions = [ai_allowed |-> FALSE, export_allowed |-> FALSE]

\* C7: the pii_gate_reasons stored with a record is null exactly when the
\* normal level passed the gate; otherwise it maps "normal" to the non-empty
\* reasons of the failed normal check, has a "strict" entry (the non-empty
\* reasons of the failed strict check) exactly when the level used is
\* PARANOID, and has no "paranoid" entry.  Read right after the record is
\* stored, when normalized_text is still the text it was made from.  (Spec)
C7_StoredReasons ==
    (pc = "stored" \/ (pc = "responded" /\ response = 201))
        => LET rec == IF site = "create_project_from_feed" THEN session[Len(session)]
                      ELSE IF site = "create_note" THEN notes[Len(notes)]
                      ELSE documents[Len(documents)]
               r  == rec.pii_gate_reasons
               gn == pii_gate_check(mask_text(normalized_text, "normal"))
               gs == pii_gate_check(mask_text(normalized_text, "strict"))
           IN /\ r.is_none <=> gn.is_safe
              /\ ~r.is_none =>
                    /\ "normal" \in DOMAIN r.v
                    /\ r.v["normal"] = gn.reasons
                    /\ gn.reasons # <<>>
                    /\ ("strict" \in DOMAIN r.v) <=> (rec.sanitize_level = "paranoid")
                    /\ "strict" \in DOMAIN r.v => (r.v["strict"] = gs.reasons /\ gs.reasons # <<>>)
                    /\ "paranoid" \notin DOMAIN r.v

\* C7 witness: an uploaded recording stored at paranoid, with the reasons of
\* the failed normal and strict checks.
C7_Witness ==
    /\ site = "upload_recording"
    /\ pc = "responded"
    /\ response = 201
    /\ documents[1].sanitize_level = "paranoid"
    /\ DOMAIN documents[1].pii_gate_reasons.v = {"normal", "strict"}

\* C8: mask_text called with a level other than normal, strict or paranoid
\* fails with an InvalidLevel error and returns no masked text.  (SpecMask)
C8_InvalidLevelFails ==
    (step # "ready" /\ arg_level \notin {"normal", "strict", "paranoid"})
        => (error = "InvalidLevel" /\ result = None)

\* C9: for every text t and every level L of normal, strict and paranoid,
\* mask_text(mask_text(t, L), L) = mask_text(t, L).  (SpecMask)
C9_MaskIdempotent ==
    (step \in {"remasked", "checked"} /\ arg_level \in {"normal", "strict", "paranoid"})
        => result2 = result

\* C10: normalize_text(normalize_text(x)) = normalize_text(x) for every x,
\* blank lines that hold only whitespace included.  (SpecNormalize)
C10_NormalizeIdempotent ==
    step = "renormalized" => result2 = result

\* C11: the output of normalize_text never holds a run of more than two
\* consecutive blank (empty) lines, that is, four newlines in a row.
\* (SpecNormalize)
C11_AtMostTwoBlankLines ==
    step \in {"returned", "renormalized"}
        => ~\E i \in 1..(Len(result.v) - 3) :
               \A j \in i..(i + 3) : result.v[j] = "\n"

\* C12: mask tokens are inert for the gate.  The reason codes the gate
\* reports on a masked text are those of the same text with every mask token
\* ([EMAIL], [PHONE], [REDACTED], [ID], [NUM], [LINK], [NAME]) emptied to
\* "[]", so none is caused by the characters inside a token; and a masked
\* text made only of tokens, letters and whitespace is safe.  (SpecMask)
C12_TokensInert ==
    step = "checked"
        => LET emptied == SubEach(<<Str(TokEMAIL), Str(TokPHONE), Str(TokREDACTED), Str(TokID),
                                    Str(TokNUM), Str(TokLINK), Str(TokNAME)>>,
                                  <<"[", "]">>, result.v)
           IN /\ verdict.v.reasons = gate_reasons(emptied)
              /\ (\A i \in DOMAIN emptied : emptied[i] \in Letter \cup Space \cup {"[", "]"})
                    => verdict.v.is_safe

\* C12 witness: the gate has passed a strict result in which the token [ID]
\* is followed by a blank and a digit.
C12_Witness ==
    /\ step = "checked"
    /\ arg_level = "strict"
    /\ result.v = TokID \o <<" ", "0", ".", "0">>
    /\ verdict.v.is_safe

\* C13: for every text t, mask_text(t, "paranoid") holds no digit
\* character.  (SpecMask)
C13_ParanoidNoDigit ==
    (step # "ready" /\ arg_level = "paranoid")
        => \A i \in DOMAIN result.v : result.v[i] \notin Digit

\* C13 witness: paranoid masking has returned for a text that held digits.
C13_Witness ==
    /\ step = "returned"
    /\ arg_level = "paranoid"
    /\ arg_text = <<"1", "9", "8", "0", "0", "1", "0", "1", "0", ".", "0">>
    /\ result.v = TokNUM \o TokNUM \o TokNUM \o TokNUM \o TokNUM \o TokNUM \o TokNUM
                    \o TokNUM \o TokNUM \o <<".">> \o TokNUM

\* C14: for every text t, mask_text(t, "paranoid") holds no "@" and no
\* "http://" or "https://" URL scheme, in any case of the letters.  (SpecMask)
C14_ParanoidNoAtNoScheme ==
    (step # "ready" /\ arg_level = "paranoid")
        => /\ \A i \in DOMAIN result.v : result.v[i] # "@"
           /\ ~Search(StrI(<<"h", "t", "t", "p">>) \o <<Run(BothCases("s"), 0, 1)>>
                          \o Str(<<":", "/", "/">>), result.v)

\* C15: every mask token occurrence of mask_text(t, "normal") is still
\* present in mask_text(t, "strict"): the tokens of the normal level
\* ([EMAIL], [PHONE], [REDACTED]) occur in the strict output as often and in
\* the same order as in the normal output.  (SpecMask)
C15_StrictKeepsNormalTokens ==
    (step # "ready" /\ arg_level = "strict")
        => LET token == <<Alt(Str(TokEMAIL), <<Alt(Str(TokPHONE), Str(TokREDACTED))>>)>>
           IN FindIter(token, result.v) = FindIter(token, mask_text(arg_text, "normal"))

\* C15 witness: a strict result that holds a token of the normal level and a
\* token the strict level added.
C15_Witness ==
    /\ step = "returned"
    /\ arg_level = "strict"
    /\ mask_text(arg_text, "normal") = TokPHONE \o <<" ", "I", "D", ":", "0">>
    /\ result.v = TokPHONE \o <<" ">> \o TokID

\* C16: pii_gate_check returns is_safe = True exactly when its reasons list
\* is empty; the list never holds a reason code twice, nor a code outside
\* the six of the docstring.  (SpecMask)
C16_GateVerdictShape ==
    step = "checked"
        => /\ verdict.v.is_safe <=> (verdict.v.reasons = <<>>)
           /\ \A i, j \in DOMAIN verdict.v.reasons :
                 verdict.v.reasons[i] = verdict.v.reasons[j] => i = j
           /\ \A i \in DOMAIN verdict.v.reasons :
                 verdict.v.reasons[i] \in
                    {"personnummer_detected", "birthdate_like_sequence_detected",
                     "email_detected", "phone_detected", "unmasked_id_detected",
                     "long_number_detected"}

\* C16 witness: the gate has rejected a masked text for two reasons.
C16_Witness ==
    /\ step = "checked"
    /\ ~verdict.v.is_safe
    /\ Len(verdict.v.reasons) = 2

\* C17, as claimed: sanitizing a text whose only number-like content is an
\* unlabelled space-separated cluster of five digits ("Ref 24 698") leaves it
\* untouched at normal, replaces the cluster by [NUM] at strict, and ends
\* with the level used STRICT.  (Spec)
C17_ClusterEndsStrict ==
    (pc = "sanitized" /\ normalized_text = RefCluster)
        => /\ mask_text(normalized_text, "normal") = RefCluster
           /\ mask_text(normalized_text, "strict") = <<"R", "e", "f", " ">> \o TokNUM
           /\ sanitize_level = "strict"

\* C17, amended: normal masking leaves "Ref 24 698" untouched and strict
\* masking replaces the cluster by [NUM]; the gate passes the normal result,
\* so the pipeline makes the one attempt at normal and ends with the level
\* used NORMAL and the text unmasked.  (Spec)
C17_ClusterEndsNormal ==
    (pc = "sanitized" /\ normalized_text = RefCluster)
        => /\ mask_text(normalized_text, "normal") = RefCluster
           /\ mask_text(normalized_text, "strict") = <<"R", "e", "f", " ">> \o TokNUM
           /\ attempts = <<"normal">>
           /\ sanitize_level = "normal"
           /\ masked_text.v = RefCluster

\* C17 witness: a document upload has sanitized "Ref 24 698".
C17_Witness ==
    /\ site = "upload_document"
    /\ pc = "sanitized"
    /\ raw_text = RefCluster
    /\ normalized_text = RefCluster

\* C24 as stated: the gate reports birthdate_like_sequence_detected for every
\* bare YYYYMMDD with a valid month and day, unless a YYYY-MM-DD of the same
\* date stands right before or right after it (at most one character
\* between).  (SpecMask)
C24_BirthdateUnlessSameDateAdjacent ==
    step = "checked" =>
       LET s == gate_sanitized(result.v)
           Val == [c \in Digit |-> CHOOSE n \in 0..9 : ToString(n) = c]
           IsDigit(i) == i \in 1..Len(s) /\ s[i] \in Digit
           IsWordAt(i) == i \in 1..Len(s) /\ s[i] \in WordChar
           BareDate(i) ==
               /\ \A k \in 0..7 : IsDigit(i + k)
               /\ ~IsWordAt(i - 1) /\ ~IsWordAt(i + 8)
               /\ <<s[i], s[i + 1]>> \in {<<"1", "9">>, <<"2", "0">>}
               /\ 10 * Val[s[i + 4]] + Val[s[i + 5]] \in 1..12
               /\ 10 * Val[s[i + 6]] + Val[s[i + 7]] \in 1..31
           HyphenDate(j) ==
               /\ \A k \in {0, 1, 2, 3, 5, 6, 8, 9} : IsDigit(j + k)
               /\ s[j + 4] = "-" /\ s[j + 7] = "-"
           reported == \E n \in DOMAIN verdict.v.reasons :
                          verdict.v.reasons[n] = "birthdate_like_sequence_detected"
           SameDate(i, j) ==
               /\ HyphenDate(j)
               /\ \A k \in 0..3 : s[j + k] = s[i + k]
               /\ s[j + 5] = s[i + 4] /\ s[j + 6] = s[i + 5]
               /\ s[j + 8] = s[i + 6] /\ s[j + 9] = s[i + 7]
           Adjacent(i) == \E j \in {i - 11, i - 10, i + 8, i + 9} : SameDate(i, j)
       IN \A i \in 1..Len(s) : (BareDate(i) /\ ~Adjacent(i)) => reported

\* C24, amended: the gate reports birthdate_like_sequence_detected exactly
\* when some bare YYYYMMDD (year 19xx or 20xx, valid month and day) has no
\* YYYY-MM-DD-shaped string, of whatever date, within the 20 characters
\* before it through the 20 characters after it.  (SpecMask)
C24_BirthdateUnlessDateNearby ==
    step = "checked" =>
       LET s == gate_sanitized(result.v)
           Val == [c \in Digit |-> CHOOSE n \in 0..9 : ToString(n) = c]
           IsDigit(i) == i \in 1..Len(s) /\ s[i] \in Digit
           IsWordAt(i) == i \in 1..Len(s) /\ s[i] \in WordChar
           BareDate(i) ==
               /\ \A k \in 0..7 : IsDigit(i + k)
               /\ ~IsWordAt(i - 1) /\ ~IsWordAt(i + 8)
               /\ <<s[i], s[i + 1]>> \in {<<"1", "9">>, <<"2", "0">>}
               /\ 10 * Val[s[i + 4]] + Val[s[i + 5]] \in 1..12
               /\ 10 * Val[s[i + 6]] + Val[s[i + 7]] \in 1..31
           HyphenDate(j) ==
               /\ \A k \in {0, 1, 2, 3, 5, 6, 8, 9} : IsDigit(j + k)
               /\ s[j + 4] = "-" /\ s[j + 7] = "-"
           reported == \E n \in DOMAIN verdict.v.reasons :
                          verdict.v.reasons[n] = "birthdate_like_sequence_detected"
           Nearby(i) ==
               \E j \in 1..Len(s) :
                   /\ HyphenDate(j)
                   /\ j >= i - 20 /\ j + 9 <= i + 7 + 20
       IN reported <=> \E i \in 1..Len(s) : BareDate(i) /\ ~Nearby(i)

\* C24 witness: the gate has checked a text whose bare date has a YYYY-MM-DD
\* of another day three characters after it, and reports no birthdate.
C24_Witness ==
    /\ step = "checked"
    /\ arg_level = "normal"
    /\ result.v = <<"1", "9", "8", "0", "0", "1", "0", "1", " ", "a", " ", "1", "9", "8", "0", "-", "0", "1", "-", "0", "2">>
    /\ verdict.v.is_safe

\* C24 second case, reached as well: the YYYY-MM-DD ends 21 characters after
\* the bare date and the birthdate is reported.
C24_WitnessFar ==
    /\ step = "checked"
    /\ arg_level = "normal"
    /\ Len(result.v) = 29
    /\ verdict.v.reasons = <<"birthdate_like_sequence_detected">>

\* C25: mask_text at strict leaves every YYYY-MM-DD-shaped date of its input
\* as it is: the dates of the output are the dates of the input, in their
\* order.  (SpecMask)
C25_StrictKeepsDates ==
    (step # "ready" /\ arg_level = "strict")
        => FindIter(hyphen_date_pattern, result.v) = FindIter(hyphen_date_pattern, arg_text)

\* C26: every attempt masks the normalized text itself, so the masked text
\* the pipeline ends with is mask_text(normalized_text, level used).  (Spec)
C26_MaskedFromNormalizedText ==
    pc = "sanitized" => masked_text.v = mask_text(normalized_text, sanitize_level)

\* C26 witness: a note sanitized at paranoid after two rejected attempts,
\* where masking the strict output again would have given another text.
C26_Witness ==
    /\ site = "create_note"
    /\ pc = "sanitized"
    /\ attempts = <<"normal", "strict", "paranoid">>
    /\ masked_text.v # mask_text(mask_text(normalized_text, "strict"), "paranoid")

\* C27: the four copies of the pipeline give one outcome for one text: each
\* handler ends its pipeline as the pipeline of upload_document ends on the
\* same text, with the same level, masked text and reasons, or with the same
\* fatal error.  (Spec)
C27_CopiesEquivalent ==
    pc \in {"sanitized", "fatal", "skipped"}
        => LET ref == sanitize_alone(raw_text)
           IN IF ref.pc = "fatal"
              THEN pc = "fatal" /\ response = 500
              ELSE /\ pc = "sanitized"
                   /\ sanitize_level = ref.sanitize_level
                   /\ masked_text = ref.masked_text
                   /\ pii_gate_reasons = ref.pii_gate_reasons

\* C28: when upload_document has failed, at whatever step, no file of the
\* upload is left in the upload directory and no document record exists.
\* (Spec)
C28_FailedUploadLeavesNothing ==
    (site = "upload_document" /\ pc \in {"failed", "fatal"})
        => DOMAIN files = {} /\ documents = <<>>

C21_WitnessJoined ==
    /\ \E i \in DOMAIN scout_items :
          scout_items[i].guid_hash = [sha256 |-> <<"u", "a", "c">>]
    /\ scout_last.op = "fetch_all_feeds"
    /\ \E f \in DOMAIN scout_last.results \ scout_last.failed :
          /\ scout_last.results[f] = 0
          /\ Len(scout_last.served[f]) = 1
          /\ \A i \in DOMAIN scout_items : scout_items[i].feed_id # f

\* C22: delete_scout_feed only disables the feed it names: every feed row
\* stays in the table with its URL, the named one with is_enabled = false
\* from then on, and no fetch_all_feeds run gives an item to a feed that is
\* disabled when the run starts.  (SpecScout)
C22_DeleteOnlyDisables ==
    [][/\ \A f \in DOMAIN scout_feeds :
             /\ f \in DOMAIN scout_feeds'
             /\ scout_feeds'[f].url = scout_feeds[f].url
             /\ ~scout_feeds[f].is_enabled => ~scout_feeds'[f].is_enabled
       /\ (scout_last'.op = "delete_scout_feed" /\ scout_last'.feed_id \in DOMAIN scout_feeds)
             => ~scout_feeds'[scout_last'.feed_id].is_enabled
       /\ \A i \in DOMAIN scout_items' \ DOMAIN scout_items :
             scout_feeds[scout_items'[i].feed_id].is_enabled]_vars

\* A run after a delete: it gave items to an enabled feed and none to the
\* disabled one, which is still in the table and has no item.
C22_Witness ==
    /\ scout_last.op = "fetch_all_feeds"
    /\ \E f, g \in DOMAIN scout_feeds :
          /\ ~scout_feeds[f].is_enabled
          /\ f \notin DOMAIN scout_last.results
          /\ \A i \in DOMAIN scout_items : scout_items[i].feed_id # f
          /\ g \in DOMAIN scout_last.results
          /\ scout_last.results[g] > 0

\* C23: validate_and_fetch never sends a request to a URL whose scheme is
\* not http or https, or to an address of a host that is private, loopback,
\* link-local or reserved.  (SpecFetch)
C23_NoRequestToBlocked ==
    \A request \in requests_sent :
        /\ request.scheme \in {"http", "https"}
        /\ ~is_private_ip(request.address)

\* C30: outside test mode compile_report calls the LLM at most twice per
\* request; a response that parses and validates is the last call and is
\* answered 200; the second call is made only after a first response that
\* failed to parse or validate; two such failures are answered 500; and a
\* call that met an unreachable server is the last call and is answered 503.
\* (SpecCompile)
C30_AtMostTwoCalls ==
    ~TESTMODE =>
        /\ Len(llm_calls) <= 2
        /\ Len(llm_calls) = 2
              => llm_calls[1].reply \in {"no_json", "invalid_json", "invalid_fields"}
        /\ \A i \in DOMAIN llm_calls :
              /\ llm_calls[i].reply \in {"valid", "valid_in_code_block"}
                    => (i = Len(llm_calls) /\ knox_pc = "done" /\ knox_response = 200)
              /\ llm_calls[i].reply \in {"ConnectionError", "Timeout"}
                    => (i = Len(llm_calls) /\ knox_pc = "done" /\ knox_response = 503)
        /\ knox_response = 200
              => (llm_calls # <<>>
                  /\ llm_calls[Len(llm_calls)].reply \in {"valid", "valid_in_code_block"})
        /\ (knox_pc = "done" /\ Len(llm_calls) = 2
               /\ llm_calls[2].reply \in {"no_json", "invalid_json", "invalid_fields"})
              => knox_response = 500

\* The second call, made with the reminder after a first response that was
\* no JSON, returned a valid response.
C30_Witness ==
    /\ ~TESTMODE
    /\ knox_pc = "done"
    /\ knox_response = 200
    /\ Len(llm_calls) = 2
    /\ llm_calls[1].reply = "no_json"
    /\ llm_calls[2].reminder

\* C18 as stated: after a document upload, a recording upload or the import
\* of a feed item, neither the record nor any stored file holds the raw
\* input text (a text that masking leaves as it is set aside).  (Spec)
C18_RawTextNeverPersisted ==
    \/ pc = "responded" /\ site \in {"upload_document", "upload_recording"}
    \/ pc = "stored"
    => LET d == IF pc = "stored" THEN session[Len(session)] ELSE documents[Len(documents)]
       IN \A q \in DOMAIN files : files[q].text = raw_text => raw_text = d.masked_text

\* C18, amended: after such an ingestion the record holds the masked text of
\* the level used and the sanitization metadata, and the stored file that the
\* record's file_path names holds the raw input text; a recording upload
\* keeps its audio file as well.  (Spec)
C18_RecordMaskedFileRaw ==
    \/ pc = "responded" /\ site \in {"upload_document", "upload_recording"}
    \/ pc = "stored"
    => LET d == IF pc = "stored" THEN session[Len(session)] ELSE documents[Len(documents)]
       IN /\ d.masked_text = mask_text(normalized_text, d.sanitize_level)
          /\ d.sanitize_level = sanitize_level
          /\ d.usage_restrictions = usage_restrictions
          /\ d.pii_gate_reasons = pii_gate_reasons
          /\ d.file_path \in DOMAIN files
          /\ files[d.file_path] = FileContent("document", raw_text)
          /\ site = "upload_recording" => audio_path \in DOMAIN files

\* C18 witness: a recording upload has stored a record whose masked text
\* differs from the transcript, and the transcript file holds the transcript.
C18_Witness ==
    /\ site = "upload_recording"
    /\ pc = "responded"
    /\ Len(documents) = 1
    /\ documents[1].masked_text # raw_text
    /\ documents[1].sanitize_level = "strict"
    /\ files[documents[1].file_path].text = raw_text
    /\ files[audio_path].kind = "audio"

C20_NoDocumentFileAfterDelete ==
    pc = "deleted" => \A q \in DOMAIN files : files[q].kind # "document"

====
